---------------------------- MODULE Spec2Model ----------------------------
(***************************************************************************)
(* A model of the postgres UpdateQuery of go-structured-query:             *)
(*   - FetchContext as a step machine (discovery, render, issue, iterate,  *)
(*     finalize, deferred calls and panic recovery);                       *)
(*   - ExecContext as a step machine (render, exec, rows affected);        *)
(*   - the copy-returning combinators over Go slices (a heap of backing    *)
(*     arrays with lengths and capacities);                                *)
(*   - AppendSQL / ToSQL rendering into a token buffer and argument list.  *)
(***************************************************************************)
EXTENDS Integers, Sequences, FiniteSets, TLC

VARIABLES
    pc,         \* position inside FetchContext or ExecContext
    inp,        \* the call's inputs: db, q.DB, q.RowMapper, q.Accumulator, result set
    err,        \* the named result err of FetchContext
    rowcount,   \* var rowcount int
    rows,       \* r.rows: the *sql.Rows cursor
    r,          \* the Row: number of destinations and read index
    defers,     \* the deferred calls of FetchContext, in registration order
    panic,      \* the panic in flight or recovered, or NoPanic
    events,     \* the calls made so far, in order
    collection, \* the caller's collection the accumulator folds into
    current,    \* the value the mapper last populated (row number)
    heap,       \* the backing arrays of the slices the statements hold
    regs,       \* the caller's statement values: the base B and two statements derived from it
    made,       \* what each derived statement rendered as when it was derived
    calls,      \* combinator calls made so far on the base
    sites,      \* the call sites that derive a statement from the base
    shown,      \* what the base rendered as, once per ToSQL call since it was last assigned
    rowsAffected \* the named result rowsAffected of ExecContext

fetchVars == <<pc, inp, err, rowcount, rows, r, defers, panic, events,
               collection, current>>

buildVars == <<heap, regs, made, calls, sites, shown>>

execVars == <<rowsAffected>>

vars == <<fetchVars, buildVars, execVars>>

-----------------------------------------------------------------------------
(* Bounds *)

MaxRows == 3
MaxDest == 2
MaxCalls == 2
MaxRenders == 2

-----------------------------------------------------------------------------
(* Go values: errors and panic values share one shape so that "err = v"    *)
(* keeps the value: t is the dynamic type, n an integer payload, s a       *)
(* string payload (the message of an error).                               *)

Val(t, n, s) == [t |-> t, n |-> n, s |-> s]

NilErr == Val("nil", 0, "")

ExitCode(n) == Val("ExitCode", n, "")

ExitPeacefully == ExitCode(0)

ErrTest == Val("errorString", 0, "this is a test error")

ErrNoRows == Val("errorString", 0, "sql: no rows in result set")

ErrDBNil == Val("errorString", 0, "DB cannot be nil")

ErrNoMapper == Val("fmtError", 0, "cannot call Fetch/FetchContext without a mapper")

ErrQuery == Val("driverError", 0, "query failed")

ErrScan == Val("driverError", 0, "scan failed")

ErrClose == Val("driverError", 0, "close failed")

ErrIter == Val("driverError", 0, "context deadline exceeded")

ErrExec == Val("driverError", 0, "exec failed")

ErrAffected == Val("driverError", 0, "rows affected unknown")

WrapScanVerbatim(e) == e

\* fmt.Errorf("...%w", err): an error wrapping err
WrapScan(e) == Val("wrapError", 0, e.s)

IsExitCode(v) == v.t = "ExitCode"

IsError(v) == v.t \in {"ExitCode", "errorString", "fmtError", "driverError", "wrapError"}

\* fmt.Sprintf("%#v", v) of the values a callback panics with
GoSyntax(v) ==
    CASE v.t = "int" -> ToString(v.n)
      [] v.t = "string" -> "\"" \o v.s \o "\""
      [] OTHER -> v.s

\* the values a callback may panic with
PanicValues ==
    { ExitPeacefully, ExitCode(1), ErrTest, Val("int", 0, ""), Val("string", 0, "boom") }

NoPanic == [active |-> FALSE, seen |-> FALSE, v |-> NilErr, by |-> "", row |-> 0]

Ok == Val("ok", 0, "")

\* how a callback invocation ends: normally, or abruptly with a value
Outcomes == {Ok} \cup PanicValues

-----------------------------------------------------------------------------
(* The deferred recover of FetchContext *)

RecoverNoPeaceful(v, e) ==
    CASE IsError(v) -> v
      [] OTHER -> Val("fmtError", 0, GoSyntax(v))

RecoverPlainFormat(v, e) ==
    CASE IsExitCode(v) -> IF v # ExitPeacefully THEN v ELSE e
      [] IsError(v) -> v
      [] OTHER -> Val("fmtError", 0, IF v.t = "int" THEN ToString(v.n) ELSE v.s)

\* lines 305-317: the outcome of the deferred recover for panic value v, with e
\* the value err holds when the panic arrives

Recover(v, e) ==
    CASE IsExitCode(v) -> IF v # ExitPeacefully THEN v ELSE e
      [] IsError(v) -> v
      [] OTHER -> Val("fmtError", 0, GoSyntax(v))

-----------------------------------------------------------------------------
(* *sql.Rows *)

NoRows == [state |-> "none", pos |-> 0, lasterr |-> NilErr, closes |-> 0]

\* rows.Close(): the first call closes the cursor and reports the driver's
\* error, later calls do nothing
RowsClose(rs, closeErr) ==
    IF rs.state = "open"
    THEN [rs EXCEPT !.state = "closed", !.closes = @ + 1]
    ELSE rs

RowsCloseErr(rs, closeErr) ==
    IF rs.state = "open" /\ closeErr THEN ErrClose ELSE NilErr

\* rows.Next() is true while a row is left; at the end of the result set, or
\* on an iteration error, it is false and the cursor closes itself
RowsHasNext(rs, n) == rs.state = "open" /\ rs.pos < n

RowsNext(rs, n, iterErr) ==
    IF RowsHasNext(rs, n)
    THEN [rs EXCEPT !.pos = @ + 1]
    ELSE IF rs.state = "open"
         THEN [rs EXCEPT !.state = "closed", !.closes = @ + 1,
                         !.lasterr = IF iterErr THEN ErrIter ELSE NilErr]
         ELSE rs

-----------------------------------------------------------------------------
(* Deferred calls *)

DeferCloseMissing(ds) == ds

\* defer r.rows.Close()
DeferClose(ds) == Append(ds, "close")

\* the deferred calls run last-registered first; only "close" acts on rows
RunDefersRows(ds, rs, closeErr) ==
    IF \E i \in 1..Len(ds) : ds[i] = "close" THEN RowsClose(rs, closeErr) ELSE rs

HasRecover(ds) == \E i \in 1..Len(ds) : ds[i] = "recover"

-----------------------------------------------------------------------------
(* The decisions of the fetch loop *)

AfterMapNoBreak(hasAcc) == IF hasAcc THEN "acc" ELSE "next"

AfterMapAlwaysBreak(hasAcc) == "finalize"

\* lines 392-395: without an accumulator the loop breaks after the mapper
AfterMap(hasAcc) == IF hasAcc THEN "acc" ELSE "finalize"

NotFoundIgnoringAccumulator(rc, hasAcc) == rc = 0

\* line 397: rowcount == 0 && q.Accumulator == nil
NotFound(rc, hasAcc) == rc = 0 /\ ~hasAcc

-----------------------------------------------------------------------------
(* Events *)

Ev(e, row) == [e |-> e, row |-> row]

Count(e) == Cardinality({i \in 1..Len(events) : events[i].e = e})

CountRow(e, row) == Cardinality({i \in 1..Len(events) : events[i] = Ev(e, row)})

Pos(e, row) == CHOOSE i \in 1..Len(events) : events[i] = Ev(e, row)

Happened(e, row) == \E i \in 1..Len(events) : events[i] = Ev(e, row)

-----------------------------------------------------------------------------
(* Go slices: a slice is a window [1..len] on a backing array of cap slots. *)
(* A combinator receives the statement by value, so it copies the slice    *)
(* headers and shares the backing arrays.                                  *)

NilSlice == [arr |-> 0, len |-> 0, cap |-> 0]

Zero == [k |-> "zero"]

\* the elements a slice shows
Elems(h, sl) == IF sl.len = 0 THEN <<>> ELSE SubSeq(h[sl.arr], 1, sl.len)

\* the capacity growslice picks for a slice of capacity oldcap that must hold
\* newLen elements (capacities below the doubling threshold)
GrowCap(oldcap, newLen) == IF newLen > 2 * oldcap THEN newLen ELSE 2 * oldcap

\* a run of n zero-valued slots
RECURSIVE Zeros(_)
Zeros(n) == IF n <= 0 THEN <<>> ELSE <<Zero>> \o Zeros(n - 1)

GoAppendOverLast(h, sl, xs) ==
    IF Len(xs) = 0
    THEN [h |-> h, s |-> sl]
    ELSE IF sl.len + Len(xs) <= sl.cap
         THEN LET array == h[sl.arr]
                  written == SubSeq(array, 1, sl.len - 1) \o xs
                                 \o SubSeq(array, sl.len + Len(xs), sl.cap)
              IN [h |-> [h EXCEPT ![sl.arr] = written],
                  s |-> [sl EXCEPT !.len = sl.len - 1 + Len(xs)]]
         ELSE LET newcap == GrowCap(sl.cap, sl.len + Len(xs))
                  grown == Elems(h, sl) \o xs \o Zeros(newcap - sl.len - Len(xs))
              IN [h |-> Append(h, grown),
                  s |-> [arr |-> Len(h) + 1, len |-> sl.len + Len(xs), cap |-> newcap]]

\* append(sl, xs...): in place when the capacity allows, else into a new array
GoAppend(h, sl, xs) ==
    IF Len(xs) = 0
    THEN [h |-> h, s |-> sl]
    ELSE IF sl.len + Len(xs) <= sl.cap
         THEN LET array == h[sl.arr]
                  written == SubSeq(array, 1, sl.len) \o xs
                                 \o SubSeq(array, sl.len + Len(xs) + 1, sl.cap)
              IN [h |-> [h EXCEPT ![sl.arr] = written],
                  s |-> [sl EXCEPT !.len = sl.len + Len(xs)]]
         ELSE LET newcap == GrowCap(sl.cap, sl.len + Len(xs))
                  grown == Elems(h, sl) \o xs \o Zeros(newcap - sl.len - Len(xs))
              IN [h |-> Append(h, grown),
                  s |-> [arr |-> Len(h) + 1, len |-> sl.len + Len(xs), cap |-> newcap]]

-----------------------------------------------------------------------------
(* Expression values *)

Lit(n) == Val("int", n, "")

NilTable == [k |-> "nil"]

NilFunc == "nil"

BaseTable(schema, name, alias) ==
    [k |-> "table", schema |-> schema, name |-> name, alias |-> alias]

USERS == BaseTable("public", "users", "")

U == BaseTable("public", "users", "u")

S == BaseTable("public", "sessions", "s")

TableField(qual, name) == [k |-> "field", qual |-> qual, name |-> name, alias |-> ""]

FieldLiteral(text) == [k |-> "literal", text |-> text]

Value(v) == [k |-> "value", v |-> v]

Eq(lhs, rhs) == [k |-> "eq", left |-> lhs, right |-> rhs]

\* a predicate group: its members, its operator and the top-level flag
VariadicPredicate(toplevel, op, ps) ==
    [k |-> "variadic", toplevel |-> toplevel, Operator |-> op, Predicates |-> ps]

\* Or(predicates...)
Or(ps) == VariadicPredicate(FALSE, " OR ", ps)

FieldAssignment(f, v) == [k |-> "assign", Field |-> f, Value |-> v]

JoinTable(joinType, table, preds) ==
    [k |-> "join", JoinType |-> joinType, Table |-> table, OnPredicates |-> preds]

JoinTypeInner == "JOIN"
JoinTypeLeft == "LEFT JOIN"
JoinTypeRight == "RIGHT JOIN"
JoinTypeFull == "FULL JOIN"

\* a SELECT statement: the only statement kind that is also a Table
SelectQuery(ctes, fields, from, preds, alias) ==
    [k |-> "select", nested |-> FALSE, CTEs |-> ctes, SelectFields |-> fields,
     FromTable |-> from, Predicates |-> preds, alias |-> alias]

CTE(name, query) == [k |-> "cte", name |-> name, query |-> query, alias |-> ""]

\* the predicates, assignments, fields and tables the calls are made with
PX == Eq(TableField("u", "user_id"), Value(Lit(11)))
PY == Eq(TableField("u", "displayname"), Value(Lit(12)))
PJ == Eq(TableField("s", "user_id"), TableField("u", "user_id"))
AX == FieldAssignment(TableField("u", "email"), Value(Lit(21)))
AY == FieldAssignment(TableField("u", "password"), Value(Lit(22)))
FX == TableField("u", "user_id")
FY == TableField("s", "session_id")

CTE1 ==
    CTE("cte1", SelectQuery(<<>>, <<FieldLiteral("1")>>, U,
                            <<Eq(TableField("u", "user_id"), Value(Lit(31)))>>, ""))

\* a derived table that itself declares a CTE
SUBQ ==
    SelectQuery(<<CTE1>>, <<TableField("s", "user_id")>>, S,
                <<Eq(TableField("s", "session_id"), Value(Lit(41)))>>, "subquery")

CTE2 ==
    CTE("cte2", SelectQuery(<<>>, <<TableField("s", "user_id")>>, S,
                            <<Eq(TableField("s", "session_id"), Value(Lit(32)))>>, ""))

\* a derived table that reads from a CTE it does not declare
SUBQ2 ==
    SelectQuery(<<>>, <<FieldLiteral("1")>>, CTE2,
                <<Eq(TableField("cte2", "user_id"), Value(Lit(42)))>>, "sub2")

\* randomString(8): the aliases a statement built without As(...) may receive
GeneratedAliases == {"hfbkqtzy", "wmpdxrca"}

\* Select(...).From(u) without As(...): the statement carries a generated alias
AUTO(alias) == SelectQuery(<<>>, <<TableField("u", "user_id")>>, U, <<>>, alias)

\* q.Get(name): the column of a query, qualified by the query's alias
QueryGet(q, name) == TableField(q.alias, name)

\* &Column{mode: ...}: the cursor a column mapper is invoked on
Column(mode) ==
    [mode |-> mode, assignments |-> <<>>, insertColumns |-> <<>>, rowValues |-> <<>>,
     firstField |-> "", seenFirstField |-> FALSE]

\* col.Set(field, value). For an UPDATE one more assignment. For an INSERT the
\* first field set opens a new row each time it is set again, and the column
\* list is closed when that happens the first time
ColumnSet(col, field, value) ==
    IF field.k = "nil" THEN col
    ELSE IF col.mode = "update"
    THEN [col EXCEPT !.assignments = Append(@, FieldAssignment(field, Value(value)))]
    ELSE IF col.firstField = ""
    THEN [col EXCEPT !.firstField = field.name,
                     !.insertColumns = Append(@, field),
                     !.rowValues = <<<<value>>>>]
    ELSE IF col.firstField = field.name
    THEN [col EXCEPT !.seenFirstField = TRUE, !.rowValues = Append(@, <<value>>)]
    ELSE [col EXCEPT !.insertColumns = IF col.seenFirstField THEN @ ELSE Append(@, field),
                     !.rowValues = [@ EXCEPT ![Len(@)] = Append(@, value)]]

RECURSIVE ColumnSetAll(_, _)
ColumnSetAll(col, sets) ==
    IF sets = <<>> THEN col
    ELSE ColumnSetAll(ColumnSet(col, Head(sets).Field, Head(sets).Value), Tail(sets))

\* column mappers: M1 sets one column, M2 two, M0 none; MPANIC aborts with an
\* error, MPANICV with a value that is no error
ColumnMappers == {"M1", "MPANIC", "MPANICV"}

\* the setter calls a column mapper makes on its Column
ColumnMapperSets(m) ==
    CASE m = "M1" -> <<FieldAssignment(TableField("u", "email"), Lit(51))>>
      [] m = "M2" -> <<FieldAssignment(TableField("u", "email"), Lit(52)),
                       FieldAssignment(TableField("u", "password"), Lit(53))>>
      [] OTHER -> <<>>

ColumnMapperPanic(m) ==
    CASE m = "MPANIC" -> ErrTest
      [] m = "MPANICV" -> Val("string", 0, "boom")
      [] OTHER -> NilErr

\* q.ColumnMapper(col)
ColumnMapperInvoke(m, col) == ColumnSetAll(col, ColumnMapperSets(m))

\* the mapper invoked on a fresh Column: its panic value, the assignments it
\* registered
ColumnMapperRun(m) ==
    [panic |-> ColumnMapperPanic(m),
     assignments |-> ColumnMapperInvoke(m, Column("update")).assignments]

-----------------------------------------------------------------------------
(* UpdateQuery and its combinators. A combinator yields the new statement  *)
(* value q and the heap h after the call.                                  *)

\* lines 149-153
Update(table) ==
    [ k |-> "update",
      nested |-> FALSE,
      CTEs |-> NilSlice,
      UpdateTable |-> table,
      Assignments |-> NilSlice,
      FromTable |-> NilTable,
      JoinTables |-> NilSlice,
      WherePredicate |-> [toplevel |-> FALSE, Predicates |-> NilSlice],
      ReturningFields |-> NilSlice,
      ColumnMapper |-> NilFunc,
      RowMapper |-> NilFunc,
      Accumulator |-> NilFunc ]

Appended(q, a, field) ==
    [q |-> CASE field = "CTEs" -> [q EXCEPT !.CTEs = a.s]
             [] field = "Assignments" -> [q EXCEPT !.Assignments = a.s]
             [] field = "JoinTables" -> [q EXCEPT !.JoinTables = a.s]
             [] field = "Predicates" -> [q EXCEPT !.WherePredicate.Predicates = a.s]
             [] field = "ReturningFields" -> [q EXCEPT !.ReturningFields = a.s],
     h |-> a.h]

\* lines 156-159
With(q, h, ctes) == Appended(q, GoAppend(h, q.CTEs, ctes), "CTEs")

\* lines 162-165
UpdateTable(q, h, table) == [q |-> [q EXCEPT !.UpdateTable = table], h |-> h]

\* lines 168-171
Set(q, h, assignments) == Appended(q, GoAppend(h, q.Assignments, assignments), "Assignments")

\* lines 174-177
Setx(q, h, mapper) == [q |-> [q EXCEPT !.ColumnMapper = mapper], h |-> h]

\* lines 180-183
From(q, h, table) == [q |-> [q EXCEPT !.FromTable = table], h |-> h]

\* lines 186-196
Join(q, h, table, predicate, predicates) ==
    Appended(q, GoAppend(h, q.JoinTables,
        <<JoinTable(JoinTypeInner, table, <<predicate>> \o predicates)>>), "JoinTables")

\* lines 199-209
LeftJoin(q, h, table, predicate, predicates) ==
    Appended(q, GoAppend(h, q.JoinTables,
        <<JoinTable(JoinTypeLeft, table, <<predicate>> \o predicates)>>), "JoinTables")

\* lines 212-222
RightJoin(q, h, table, predicate, predicates) ==
    Appended(q, GoAppend(h, q.JoinTables,
        <<JoinTable(JoinTypeRight, table, <<predicate>> \o predicates)>>), "JoinTables")

\* lines 225-235
FullJoin(q, h, table, predicate, predicates) ==
    Appended(q, GoAppend(h, q.JoinTables,
        <<JoinTable(JoinTypeFull, table, <<predicate>> \o predicates)>>), "JoinTables")

\* lines 239-248
CustomJoin(q, h, joinType, table, predicates) ==
    Appended(q, GoAppend(h, q.JoinTables,
        <<JoinTable(joinType, table, predicates)>>), "JoinTables")

\* lines 251-254
Where(q, h, predicates) ==
    Appended(q, GoAppend(h, q.WherePredicate.Predicates, predicates), "Predicates")

\* lines 257-260
Returning(q, h, fields) ==
    Appended(q, GoAppend(h, q.ReturningFields, fields), "ReturningFields")

\* lines 263-266: a new one-element slice
ReturningOne(q, h) ==
    Appended(q, GoAppend(h, NilSlice, <<FieldLiteral("1")>>), "ReturningFields")

\* lines 269-273
Returningx(q, h, mapper, accumulator) ==
    [q |-> [q EXCEPT !.RowMapper = mapper, !.Accumulator = accumulator], h |-> h]

\* lines 276-279
ReturningRowx(q, h, mapper) == [q |-> [q EXCEPT !.RowMapper = mapper], h |-> h]

NestThisForgotten(q) == q

\* lines 477-480
NestThis(q) == [q EXCEPT !.nested = TRUE]

-----------------------------------------------------------------------------
(* Rendering. The buffer is a sequence of tokens; a placeholder token      *)
(* remembers (field "of") the literal it was written for, so that the      *)
(* binding of placeholders to arguments can be stated. st.panic is the     *)
(* value a column mapper panicked with (NilErr: none), st.passes counts    *)
(* the placeholder rewrites applied to the buffer.                         *)

Tok(str) == [s |-> str, of |-> NilErr, n |-> 0]

Question(v) == [s |-> "?", of |-> v, n |-> 0]

Dollar(v, i) == [s |-> "$", of |-> v, n |-> i]

EmptySt == [buf |-> <<>>, args |-> <<>>, panic |-> NilErr, passes |-> 0]

W(st, str) == IF st.panic # NilErr THEN st ELSE [st EXCEPT !.buf = Append(@, Tok(str))]

\* a literal value: one placeholder and one argument
WArg(st, v) ==
    IF st.panic # NilErr THEN st
    ELSE [st EXCEPT !.buf = Append(@, Question(v)), !.args = Append(@, v)]

\* the separator written before every element but the first
Sep(st, i, str) == IF i > 1 THEN W(st, str) ELSE st

\* " AS alias" for a non-empty alias
AppendAlias(st, alias) == IF alias # "" THEN W(W(st, " AS "), alias) ELSE st

\* the i-th "?" of the text becomes $i
QuestionToDollarPlaceholders(buf) ==
    LET marks == {j \in 1..Len(buf) : buf[j].s = "?"}
        rewritten == [i \in 1..Len(buf) |->
                        IF i \in marks
                        THEN Dollar(buf[i].of, Cardinality({j \in marks : j <= i}))
                        ELSE buf[i]]
    IN SubSeq(rewritten, 1, Len(buf))

\* lines 123-126: the outermost statement rewrites the whole text
Rewrite(q, st) ==
    IF q.nested \/ st.panic # NilErr THEN st
    ELSE [st EXCEPT !.buf = QuestionToDollarPlaceholders(st.buf), !.passes = @ + 1]

\* a table field renders qualified unless its qualifier is excluded
FieldAppendSQLExclude(st, f, excl) ==
    CASE f.k = "literal" -> W(st, f.text)
      [] f.k = "field" ->
            IF f.qual = "" \/ f.qual \in excl
            THEN W(st, f.name)
            ELSE W(W(W(st, f.qual), "."), f.name)

FieldGetAlias(f) == IF f.k = "field" THEN f.alias ELSE ""

\* literal -> placeholder and argument; Field -> its name
AppendSQLValue(st, v, excl) ==
    CASE v.k = "value" -> WArg(st, v.v)
      [] v.k = "nil" -> W(st, "NULL")
      [] OTHER -> FieldAppendSQLExclude(st, v, excl)

\* fields.go 49-60: one round of the loop
FieldsStep(st, field, i, excl) ==
    IF field.k = "nil"
    THEN W(Sep(st, i, ", "), "NULL")
    ELSE AppendAlias(FieldAppendSQLExclude(Sep(st, i, ", "), field, excl), FieldGetAlias(field))

RECURSIVE FieldsLoop(_, _, _, _)
FieldsLoop(st, fs, i, excl) ==
    IF st.panic # NilErr \/ i > Len(fs) THEN st
    ELSE FieldsLoop(FieldsStep(st, fs[i], i, excl), fs, i + 1, excl)

\* Fields.AppendSQLExcludeWithAlias
FieldsAppendSQLExcludeWithAlias(st, fs, excl) == FieldsLoop(st, fs, 1, excl)

\* FieldAssignment.AppendSQLExclude
FieldAssignmentAppendSQLExclude(st, set, excl) ==
    AppendSQLValue(W(AppendSQLValue(st, set.Field, excl), " = "), set.Value, excl)

\* the panic of a method call on a nil interface value
NilDereference ==
    Val("runtimeError", 0, "invalid memory address or nil pointer dereference")

\* fields.go 93: assignment.AppendSQLExclude(...), with no test for nil
AssignmentAppendSQLExclude(st, assignment, excl) ==
    IF assignment.k = "nil"
    THEN IF st.panic # NilErr THEN st ELSE [st EXCEPT !.panic = NilDereference]
    ELSE FieldAssignmentAppendSQLExclude(st, assignment, excl)

RECURSIVE AssignmentsLoop(_, _, _, _)
AssignmentsLoop(st, as, i, excl) ==
    IF st.panic # NilErr \/ i > Len(as) THEN st
    ELSE AssignmentsLoop(AssignmentAppendSQLExclude(Sep(st, i, ", "), as[i], excl),
                         as, i + 1, excl)

\* Assignments.AppendSQLExclude
AssignmentsAppendSQLExclude(st, as, excl) == AssignmentsLoop(st, as, 1, excl)

RECURSIVE VariadicPredicateAppendSQLExclude(_, _, _)

\* a comparison renders left = right, a group renders as a VariadicPredicate
PredicateAppendSQLExclude(st, p, excl) ==
    IF p.k = "variadic"
    THEN VariadicPredicateAppendSQLExclude(st, p, excl)
    ELSE AppendSQLValue(W(AppendSQLValue(st, p.left, excl), " = "), p.right, excl)

RECURSIVE PredicatesLoop(_, _, _, _, _)
PredicatesLoop(st, ps, i, excl, op) ==
    IF st.panic # NilErr \/ i > Len(ps) THEN st
    ELSE PredicatesLoop(PredicateAppendSQLExclude(Sep(st, i, op), ps[i], excl),
                        ps, i + 1, excl, op)

\* VariadicPredicate.AppendSQLExclude: the members joined by the operator; a
\* group of two or more members that is not top-level is parenthesized, a
\* single member renders bare
VariadicPredicateAppendSQLExclude(st, p, excl) ==
    IF Len(p.Predicates) = 0 THEN st
    ELSE IF Len(p.Predicates) = 1 THEN PredicateAppendSQLExclude(st, p.Predicates[1], excl)
    ELSE IF p.toplevel THEN PredicatesLoop(st, p.Predicates, 1, excl, p.Operator)
    ELSE W(PredicatesLoop(W(st, "("), p.Predicates, 1, excl, p.Operator), ")")

TableGetAlias(t) == IF t.k = "nil" THEN "" ELSE t.alias

TableGetName(t) == IF t.k \in {"table", "cte"} THEN t.name ELSE ""

IsQuery(t) == t.k \in {"select", "update"}

\* BaseTable.AppendSQL: schema.name; a CTE renders as its name
BaseTableAppendSQL(st, t) ==
    CASE t.k = "table" -> W(W(W(st, t.schema), "."), t.name)
      [] t.k = "cte" -> W(st, t.name)
      [] OTHER -> W(st, "NULL")

RECURSIVE QueryAppendSQL(_, _, _)

\* Query.NestThis of any statement kind
QueryNestThis(v) == IF v.k = "update" THEN NestThis(v) ELSE [v EXCEPT !.nested = TRUE]

\* a table in FROM or JOIN position: a Query is parenthesized and nested
TableAppendSQL(st, t, h) ==
    AppendAlias(IF IsQuery(t)
                THEN W(QueryAppendSQL(QueryNestThis(t), W(st, "("), h), ")")
                ELSE BaseTableAppendSQL(st, t),
                TableGetAlias(t))

JoinKeyword(j) == IF j.JoinType = "" THEN JoinTypeInner ELSE j.JoinType

JoinOnAlways(st, predicates) ==
    IF st.panic = NilErr
    THEN VariadicPredicateAppendSQLExclude(W(st, " ON "),
             VariadicPredicate(TRUE, " AND ", predicates), {})
    ELSE st

JoinOn(st, predicates) ==
    IF st.panic = NilErr /\ Len(predicates) > 0
    THEN VariadicPredicateAppendSQLExclude(W(st, " ON "),
             VariadicPredicate(TRUE, " AND ", predicates), {})
    ELSE st

\* JoinTable.AppendSQL: keyword, table, ON predicates
JoinTableAppendSQL(st, j, h) ==
    JoinOn(TableAppendSQL(W(W(st, JoinKeyword(j)), " "), j.Table, h), j.OnPredicates)

RECURSIVE JoinTablesLoop(_, _, _, _)
JoinTablesLoop(st, js, i, h) ==
    IF st.panic # NilErr \/ i > Len(js) THEN st
    ELSE JoinTablesLoop(JoinTableAppendSQL(Sep(st, i, " "), js[i], h), js, i + 1, h)

\* JoinTables.AppendSQL: the joins in order, separated by spaces
JoinTablesAppendSQL(st, js, h) == JoinTablesLoop(st, js, 1, h)

\* the CTEs of a WITH prefix: those declared, then the FROM table and the join
\* tables that are CTEs, each name once
RECURSIVE DedupCTEs(_, _)
DedupCTEs(cs, seen) ==
    IF cs = <<>> THEN <<>>
    ELSE IF Head(cs).k # "cte" \/ Head(cs).name \in seen
         THEN DedupCTEs(Tail(cs), seen)
         ELSE <<Head(cs)>> \o DedupCTEs(Tail(cs), seen \cup {Head(cs).name})

\* name AS (query)
CTEAppendSQL(st, c, h) ==
    W(QueryAppendSQL(QueryNestThis(c.query), W(W(st, c.name), " AS ("), h), ")")

RECURSIVE CTEsLoop(_, _, _, _)
CTEsLoop(st, cs, i, h) ==
    IF st.panic # NilErr \/ i > Len(cs) THEN st
    ELSE CTEsLoop(CTEAppendSQL(Sep(st, i, ", "), cs[i], h), cs, i + 1, h)

WithClause(st, cs, h) ==
    IF st.panic # NilErr \/ cs = <<>> THEN st ELSE W(CTEsLoop(W(st, "WITH "), cs, 1, h), " ")

JoinedTables(joinTables) == [i \in 1..Len(joinTables) |-> joinTables[i].Table]

\* the CTEs a table in FROM or JOIN position brings to the WITH prefix: a CTE
\* itself, a nested statement its own WITH list and those of its FROM table
RECURSIVE TableCTEs(_)
TableCTEs(t) ==
    CASE t.k = "cte" -> <<t>>
      [] t.k = "select" -> t.CTEs \o TableCTEs(t.FromTable)
      [] OTHER -> <<>>

RECURSIVE TablesCTEs(_)
TablesCTEs(ts) == IF ts = <<>> THEN <<>> ELSE TableCTEs(Head(ts)) \o TablesCTEs(Tail(ts))

\* appendCTEs(buf, args, CTEs, fromTable, joinTables): the declared CTEs, then
\* those of the FROM table and of the join tables, each name once
AppendCTEs(st, ctes, fromTable, joinTables, h) ==
    WithClause(st, DedupCTEs(ctes \o TablesCTEs(<<fromTable>> \o JoinedTables(joinTables)),
                             {}), h)

SelectWith(q, st, h) ==
    IF ~q.nested THEN AppendCTEs(st, q.CTEs, q.FromTable, <<>>, h) ELSE st

SelectFields(q, st) ==
    IF st.panic = NilErr /\ Len(q.SelectFields) > 0
    THEN FieldsAppendSQLExcludeWithAlias(W(st, " "), q.SelectFields, {})
    ELSE st

SelectFrom(q, st, h) ==
    IF st.panic = NilErr /\ q.FromTable.k # "nil" THEN TableAppendSQL(W(st, " FROM "), q.FromTable, h) ELSE st

SelectWhere(q, st) ==
    IF st.panic = NilErr /\ Len(q.Predicates) > 0
    THEN VariadicPredicateAppendSQLExclude(W(st, " WHERE "),
             VariadicPredicate(TRUE, " AND ", q.Predicates), {})
    ELSE st

\* SelectQuery.AppendSQL: WITH, SELECT, FROM, WHERE; the WITH prefix and the
\* placeholder rewrite only when not nested
SelectAppendSQL(q, st, h) ==
    Rewrite(q, SelectWhere(q, SelectFrom(q, SelectFields(q,
        W(SelectWith(q, st, h), "SELECT")), h)))

\* lines 60-64: the column mapper replaces the assignments; it may panic
AppendMapper(q, st) ==
    IF q.ColumnMapper # NilFunc /\ st.panic = NilErr
    THEN [st EXCEPT !.panic = ColumnMapperRun(q.ColumnMapper).panic]
    ELSE st

MappedAssignmentsAfterSet(q, h) ==
    IF q.ColumnMapper # NilFunc
    THEN ColumnMapperInvoke(q.ColumnMapper,
             [Column("update") EXCEPT !.assignments = Elems(h, q.Assignments)]).assignments
    ELSE Elems(h, q.Assignments)

\* lines 60-64: col := &Column{mode: colmodeUpdate}; q.ColumnMapper(col);
\* q.Assignments = col.assignments
MappedAssignments(q, h) ==
    IF q.ColumnMapper # NilFunc
    THEN ColumnMapperInvoke(q.ColumnMapper, Column("update")).assignments
    ELSE Elems(h, q.Assignments)

AppendWithDeclaredOnly(q, st, h) ==
    IF ~q.nested
    THEN AppendCTEs(st, Elems(h, q.CTEs), NilTable, <<>>, h)
    ELSE st

\* lines 65-68
AppendWith(q, st, h) ==
    IF ~q.nested
    THEN AppendCTEs(st, Elems(h, q.CTEs), q.FromTable, Elems(h, q.JoinTables), h)
    ELSE st

\* lines 69-84
AppendUpdate(q, st) ==
    IF q.UpdateTable.k = "nil"
    THEN W(W(st, "UPDATE "), "NULL")
    ELSE AppendAlias(BaseTableAppendSQL(W(st, "UPDATE "), q.UpdateTable),
                     TableGetAlias(q.UpdateTable))

ExcludedTableQualifiersByName(q) ==
    IF q.UpdateTable.k = "nil" THEN {} ELSE {TableGetName(q.UpdateTable)}

\* lines 75-83
ExcludedTableQualifiers(q) ==
    IF q.UpdateTable.k = "nil" THEN {}
    ELSE IF TableGetAlias(q.UpdateTable) # ""
         THEN {TableGetAlias(q.UpdateTable)}
         ELSE {TableGetName(q.UpdateTable)}

SetClause(st, assignments, excl) ==
    IF st.panic = NilErr /\ Len(assignments) > 0
    THEN AssignmentsAppendSQLExclude(W(st, " SET "), assignments, excl)
    ELSE st

\* lines 85-89
AppendSet(q, st, h) == SetClause(st, MappedAssignments(q, h), ExcludedTableQualifiers(q))

AppendFromNoAlias(q, st, h) ==
    IF st.panic = NilErr /\ q.FromTable.k # "nil"
    THEN IF IsQuery(q.FromTable)
         THEN W(QueryAppendSQL(QueryNestThis(q.FromTable), W(W(st, " FROM "), "("), h), ")")
         ELSE BaseTableAppendSQL(W(st, " FROM "), q.FromTable)
    ELSE st

AppendFromNotNested(q, st, h) ==
    IF st.panic = NilErr /\ q.FromTable.k # "nil"
    THEN AppendAlias(IF IsQuery(q.FromTable)
                     THEN W(QueryAppendSQL(q.FromTable, W(W(st, " FROM "), "("), h), ")")
                     ELSE BaseTableAppendSQL(W(st, " FROM "), q.FromTable),
                     TableGetAlias(q.FromTable))
    ELSE st

\* lines 90-106: FROM, a Query parenthesized and nested, then its alias
AppendFrom(q, st, h) ==
    IF st.panic = NilErr /\ q.FromTable.k # "nil"
    THEN TableAppendSQL(W(st, " FROM "), q.FromTable, h)
    ELSE st

\* lines 107-111
AppendJoin(q, st, h) ==
    IF st.panic = NilErr /\ q.JoinTables.len > 0
    THEN JoinTablesAppendSQL(W(st, " "), Elems(h, q.JoinTables), h)
    ELSE st

AppendWhereNotToplevel(q, st, h) ==
    IF st.panic = NilErr /\ q.WherePredicate.Predicates.len > 0
    THEN VariadicPredicateAppendSQLExclude(W(st, " WHERE "),
             VariadicPredicate(q.WherePredicate.toplevel, " AND ",
                               Elems(h, q.WherePredicate.Predicates)), {})
    ELSE st

\* lines 112-117: q.WherePredicate.toplevel = true, then the predicate list
AppendWhere(q, st, h) ==
    IF st.panic = NilErr /\ q.WherePredicate.Predicates.len > 0
    THEN VariadicPredicateAppendSQLExclude(W(st, " WHERE "),
             VariadicPredicate(TRUE, " AND ", Elems(h, q.WherePredicate.Predicates)), {})
    ELSE st

\* lines 118-122
AppendReturning(q, st, h) ==
    IF st.panic = NilErr /\ q.ReturningFields.len > 0
    THEN FieldsAppendSQLExcludeWithAlias(W(st, " RETURNING "), Elems(h, q.ReturningFields), {})
    ELSE st

UpdateAppendSQLWhereFirst(q, st, h) ==
    Rewrite(q, AppendReturning(q, AppendJoin(q, AppendFrom(q, AppendWhere(q,
        AppendSet(q, AppendUpdate(q, AppendWith(q, AppendMapper(q, st), h)), h),
        h), h), h), h))

\* lines 58-146: UpdateQuery.AppendSQL (the log output of lines 127-144 is not
\* part of the rendered text)
UpdateAppendSQL(q, st, h) ==
    Rewrite(q, AppendReturning(q, AppendWhere(q, AppendJoin(q, AppendFrom(q,
        AppendSet(q, AppendUpdate(q, AppendWith(q, AppendMapper(q, st), h)), h),
        h), h), h), h))

QueryAppendSQL(v, st, h) ==
    IF v.k = "update" THEN UpdateAppendSQL(v, st, h) ELSE SelectAppendSQL(v, st, h)

ToSQLNoRecover(q, h) ==
    LET st == UpdateAppendSQL(q, EmptySt, h)
    IN [query |-> st.buf, args |-> st.args]

\* lines 42-52: a panic of the column mapper is recovered into args
ToSQL(q, h) ==
    LET st == UpdateAppendSQL(q, EmptySt, h)
    IN IF st.panic # NilErr
       THEN [query |-> <<>>, args |-> <<st.panic>>]
       ELSE [query |-> st.buf, args |-> st.args]

-----------------------------------------------------------------------------
(* InsertQuery: INSERT INTO table (columns) VALUES (row), (row) ...        *)

FieldsNoAliasStep(st, field, i, excl) ==
    IF field.k = "nil"
    THEN W(Sep(st, i, ", "), "NULL")
    ELSE FieldAppendSQLExclude(Sep(st, i, ", "), field, excl)

RECURSIVE FieldsNoAliasLoop(_, _, _, _)
FieldsNoAliasLoop(st, fs, i, excl) ==
    IF st.panic # NilErr \/ i > Len(fs) THEN st
    ELSE FieldsNoAliasLoop(FieldsNoAliasStep(st, fs[i], i, excl), fs, i + 1, excl)

FieldsAppendSQLExcludeFirstOnly(st, fs, excl) ==
    FieldsNoAliasLoop(st, SubSeq(fs, 1, 1), 1, excl)

\* fields.go 30-41: Fields.AppendSQLExclude
FieldsAppendSQLExclude(st, fs, excl) == FieldsNoAliasLoop(st, fs, 1, excl)

\* InsertQuery{}
InsertQuery ==
    [ k |-> "insert",
      nested |-> FALSE,
      IntoTable |-> NilTable,
      InsertColumns |-> <<>>,
      RowValues |-> <<>>,
      ColumnMapper |-> NilFunc ]

InsertInto(q, table) == [q EXCEPT !.IntoTable = table]

Columns(q, fields) == [q EXCEPT !.InsertColumns = fields]

\* Values(values...): one more row
Values(q, values) == [q EXCEPT !.RowValues = Append(@, values)]

Valuesx(q, mapper) == [q EXCEPT !.ColumnMapper = mapper]

\* the mappers handed to Valuesx, each the setter calls it makes: one entry,
\* two entries of two columns, three entries of one column
InsertMappers == {"V1", "V2", "V3"}

DISPLAYNAME == TableField("u", "displayname")

EMAIL == TableField("u", "email")

InsertMapperSets(m) ==
    CASE m = "V1" -> <<FieldAssignment(DISPLAYNAME, Lit(71)), FieldAssignment(EMAIL, Lit(72))>>
      [] m = "V2" -> <<FieldAssignment(DISPLAYNAME, Lit(71)), FieldAssignment(EMAIL, Lit(72)),
                       FieldAssignment(DISPLAYNAME, Lit(73)), FieldAssignment(EMAIL, Lit(74))>>
      [] OTHER -> <<FieldAssignment(EMAIL, Lit(75)), FieldAssignment(EMAIL, Lit(76)),
                    FieldAssignment(EMAIL, Lit(77))>>

\* the column mapper replaces the column list and the rows
InsertMapped(q) ==
    IF q.ColumnMapper = NilFunc THEN q
    ELSE [q EXCEPT !.InsertColumns =
                       ColumnSetAll(Column("insert"), InsertMapperSets(q.ColumnMapper)).insertColumns,
                   !.RowValues =
                       ColumnSetAll(Column("insert"), InsertMapperSets(q.ColumnMapper)).rowValues]

InsertExcluded(q) ==
    IF q.IntoTable.k = "nil" THEN {}
    ELSE IF TableGetAlias(q.IntoTable) # ""
         THEN {TableGetAlias(q.IntoTable)}
         ELSE {TableGetName(q.IntoTable)}

AppendInto(q, st) ==
    IF q.IntoTable.k = "nil"
    THEN W(W(st, "INSERT INTO "), "NULL")
    ELSE AppendAlias(BaseTableAppendSQL(W(st, "INSERT INTO "), q.IntoTable),
                     TableGetAlias(q.IntoTable))

AppendColumns(q, st) ==
    IF st.panic = NilErr /\ Len(q.InsertColumns) > 0
    THEN W(FieldsAppendSQLExclude(W(st, " ("), q.InsertColumns, InsertExcluded(q)), ")")
    ELSE st

RECURSIVE RowValueLoop(_, _, _)
RowValueLoop(st, row, i) ==
    IF st.panic # NilErr \/ i > Len(row) THEN st
    ELSE RowValueLoop(WArg(Sep(st, i, ", "), row[i]), row, i + 1)

\* (value, value, ...)
RowValueAppendSQL(st, row) == W(RowValueLoop(W(st, "("), row, 1), ")")

RECURSIVE RowValuesLoop(_, _, _)
RowValuesLoop(st, rs, i) ==
    IF st.panic # NilErr \/ i > Len(rs) THEN st
    ELSE RowValuesLoop(RowValueAppendSQL(Sep(st, i, ", "), rs[i]), rs, i + 1)

\* RowValues.AppendSQL: the rows in order, separated by commas
RowValuesAppendSQL(st, rs) == RowValuesLoop(st, rs, 1)

AppendValues(q, st) ==
    IF st.panic = NilErr /\ Len(q.RowValues) > 0
    THEN RowValuesAppendSQL(W(st, " VALUES "), q.RowValues)
    ELSE st

\* InsertQuery.AppendSQL: INSERT INTO, the column list, VALUES
InsertAppendSQL(q, st) ==
    Rewrite(q, AppendValues(InsertMapped(q), AppendColumns(InsertMapped(q),
        AppendInto(q, st))))

\* InsertQuery.ToSQL
InsertToSQL(q) ==
    [query |-> InsertAppendSQL(q, EmptySt).buf, args |-> InsertAppendSQL(q, EmptySt).args]

-----------------------------------------------------------------------------
(* FetchContext *)

Inputs ==
    [ dbArg : BOOLEAN,          \* the db argument is not nil
      qDB : BOOLEAN,            \* q.DB is not nil
      hasMapper : BOOLEAN,      \* q.RowMapper is not nil
      hasAcc : BOOLEAN,         \* q.Accumulator is not nil
      hasColMapper : BOOLEAN,   \* q.ColumnMapper is not nil
      nDest : 0..MaxDest,       \* destinations the mapper registers
      n : 0..MaxRows,           \* rows of the result set
      queryErr : BOOLEAN,       \* db.Query fails
      iterErr : BOOLEAN,        \* the cursor fails after its n rows
      closeErr : BOOLEAN ]      \* the driver's Close reports an error

Unset == [k |-> "unset"]

NoSQL == [query |-> <<>>, args |-> <<>>]

\* no statement is being built
BuildIdle ==
    /\ heap = <<>>
    /\ regs = [B |-> Unset, q1 |-> Unset, q2 |-> Unset]
    /\ made = [q1 |-> NoSQL, q2 |-> NoSQL]
    /\ calls = 0
    /\ sites = {}
    /\ shown = <<>>

Init ==
    /\ BuildIdle
    /\ pc = "start"
    /\ inp \in Inputs
    /\ err = NilErr
    /\ rowcount = 0
    /\ rowsAffected = 0
    /\ rows = NoRows
    /\ r = [dest |-> 0, index |-> 0]
    /\ defers = <<>>
    /\ panic = NoPanic
    /\ events = <<>>
    /\ collection = <<>>
    /\ current = 0

Raise(v, by, row) == [active |-> TRUE, seen |-> TRUE, v |-> v, by |-> by, row |-> row]

\* lines 292-340: the connection and mapper checks, then the deferred recover
Start ==
    /\ pc = "start"
    /\ IF ~inp.dbArg /\ ~inp.qDB
       THEN /\ err' = ErrDBNil
            /\ pc' = "done"
            /\ UNCHANGED defers
       ELSE IF ~inp.hasMapper
            THEN /\ err' = ErrNoMapper
                 /\ pc' = "done"
                 /\ UNCHANGED defers
            ELSE /\ defers' = Append(defers, "recover")
                 /\ pc' = "bind"
                 /\ UNCHANGED err
    /\ UNCHANGED <<inp, rowcount, rows, r, panic, events, collection, current, buildVars, execVars>>

BindContinues ==
    /\ pc = "bind"
    /\ events' = Append(events, Ev("mapper", 0))
    /\ \E out \in Outcomes :
          IF out = Ok
          THEN /\ r' = [dest |-> inp.nDest, index |-> 0]
               /\ pc' = "render"
               /\ UNCHANGED panic
          ELSE /\ panic' = Raise(out, "mapper", 0)
               /\ pc' = IF out = ExitPeacefully THEN "render" ELSE "unwind"
               /\ UNCHANGED r
    /\ UNCHANGED <<inp, err, rowcount, rows, defers, collection, current, buildVars, execVars>>

\* lines 341-343: the discovery invocation of the row mapper on a fresh Row
Bind ==
    /\ pc = "bind"
    /\ events' = Append(events, Ev("mapper", 0))
    /\ \E out \in Outcomes :
          IF out = Ok
          THEN /\ r' = [dest |-> inp.nDest, index |-> 0]
               /\ pc' = "render"
               /\ UNCHANGED panic
          ELSE /\ panic' = Raise(out, "mapper", 0)
               /\ pc' = "unwind"
               /\ UNCHANGED r
    /\ UNCHANGED <<inp, err, rowcount, rows, defers, collection, current, buildVars, execVars>>

\* lines 344-347: q.AppendSQL, which invokes the column mapper if one is bound
Render ==
    /\ pc = "render"
    /\ events' = Append(events, Ev("render", 0))
    /\ \E out \in (IF inp.hasColMapper THEN Outcomes ELSE {Ok}) :
          IF out = Ok
          THEN /\ pc' = "issue"
               /\ UNCHANGED panic
          ELSE /\ panic' = Raise(out, "column", 0)
               /\ pc' = "unwind"
    /\ UNCHANGED <<inp, err, rowcount, rows, r, defers, collection, current, buildVars, execVars>>

IssueRetrying ==
    /\ pc = "issue"
    /\ events' = Append(events, Ev("query", 0))
    /\ IF inp.queryErr
       THEN /\ err' = ErrQuery
            /\ pc' = IF Count("query") = 0 THEN "issue" ELSE "return"
            /\ UNCHANGED <<rows, defers>>
       ELSE /\ err' = NilErr
            /\ rows' = [NoRows EXCEPT !.state = "open"]
            /\ defers' = DeferClose(defers)
            /\ pc' = "checkdest"
    /\ UNCHANGED <<inp, rowcount, r, panic, collection, current, buildVars, execVars>>

\* lines 348-356: db.Query / db.QueryContext, then defer r.rows.Close()
Issue ==
    /\ pc = "issue"
    /\ events' = Append(events, Ev("query", 0))
    /\ IF inp.queryErr
       THEN /\ err' = ErrQuery
            /\ pc' = "return"
            /\ UNCHANGED <<rows, defers>>
       ELSE /\ err' = NilErr
            /\ rows' = [NoRows EXCEPT !.state = "open"]
            /\ defers' = DeferClose(defers)
            /\ pc' = "checkdest"
    /\ UNCHANGED <<inp, rowcount, r, panic, collection, current, buildVars, execVars>>

CheckDestIgnored ==
    /\ pc = "checkdest"
    /\ pc' = "next"
    /\ UNCHANGED <<inp, err, rowcount, rows, r, defers, panic, events, collection, current, buildVars, execVars>>

\* lines 357-359: if len(r.dest) == 0 { return nil }
CheckDest ==
    /\ pc = "checkdest"
    /\ IF r.dest = 0
       THEN /\ err' = NilErr
            /\ pc' = "return"
       ELSE /\ pc' = "next"
            /\ UNCHANGED err
    /\ UNCHANGED <<inp, rowcount, rows, r, defers, panic, events, collection, current, buildVars, execVars>>

\* line 360: for r.rows.Next()
Iterate ==
    /\ pc = "next"
    /\ rows' = RowsNext(rows, inp.n, inp.iterErr)
    /\ pc' = IF RowsHasNext(rows, inp.n) THEN "scan" ELSE "finalize"
    /\ UNCHANGED <<inp, err, rowcount, r, defers, panic, events, collection, current, buildVars, execVars>>

\* lines 361-375: rowcount++, r.rows.Scan(r.dest...)
Scan ==
    /\ pc = "scan"
    /\ rowcount' = rowcount + 1
    /\ \E ok \in BOOLEAN :
          IF ok
          THEN /\ events' = Append(events, Ev("scan", rowcount + 1))
               /\ err' = NilErr
               /\ pc' = "map"
          ELSE /\ events' = events \o <<Ev("scan", rowcount + 1), Ev("scanerr", rowcount + 1)>>
               /\ err' = WrapScan(ErrScan)
               /\ pc' = "return"
    /\ UNCHANGED <<inp, rows, r, defers, panic, collection, current, buildVars, execVars>>

\* lines 390-394: r.index = 0, q.RowMapper(r), break without an accumulator
Map ==
    /\ pc = "map"
    /\ events' = events \o <<Ev("reset", rowcount), Ev("mapper", rowcount)>>
    /\ \E out \in Outcomes :
          IF out = Ok
          THEN /\ r' = [r EXCEPT !.index = r.dest]
               /\ current' = rowcount
               /\ pc' = AfterMap(inp.hasAcc)
               /\ UNCHANGED panic
          ELSE /\ r' = [r EXCEPT !.index = 0]
               /\ panic' = Raise(out, "mapper", rowcount)
               /\ pc' = "unwind"
               /\ UNCHANGED current
    /\ UNCHANGED <<inp, err, rowcount, rows, defers, collection, buildVars, execVars>>

\* line 395: q.Accumulator()
Acc ==
    /\ pc = "acc"
    /\ events' = Append(events, Ev("acc", rowcount))
    /\ \E out \in Outcomes :
          IF out = Ok
          THEN /\ collection' = Append(collection, current)
               /\ pc' = "next"
               /\ UNCHANGED panic
          ELSE /\ panic' = Raise(out, "acc", rowcount)
               /\ pc' = "unwind"
               /\ UNCHANGED collection
    /\ UNCHANGED <<inp, err, rowcount, rows, r, defers, current, buildVars, execVars>>

\* lines 397-403: the not-found condition, r.rows.Close(), r.rows.Err()
Finalize ==
    /\ pc = "finalize"
    /\ IF NotFound(rowcount, inp.hasAcc)
       THEN /\ err' = ErrNoRows
            /\ UNCHANGED rows
       ELSE /\ rows' = RowsClose(rows, inp.closeErr)
            /\ err' = IF RowsCloseErr(rows, inp.closeErr) # NilErr
                      THEN RowsCloseErr(rows, inp.closeErr)
                      ELSE rows.lasterr
    /\ pc' = "return"
    /\ UNCHANGED <<inp, rowcount, r, defers, panic, events, collection, current, buildVars, execVars>>

\* a return statement: the deferred calls run, recover() finds no panic
Return ==
    /\ pc = "return"
    /\ rows' = RunDefersRows(defers, rows, inp.closeErr)
    /\ defers' = <<>>
    /\ pc' = "done"
    /\ UNCHANGED <<inp, err, rowcount, r, panic, events, collection, current, buildVars, execVars>>

\* a panic of a callback: the deferred calls run, lines 305-317 recover it
Unwind ==
    /\ pc = "unwind"
    /\ rows' = RunDefersRows(defers, rows, inp.closeErr)
    /\ err' = IF HasRecover(defers) THEN Recover(panic.v, err) ELSE err
    /\ panic' = [panic EXCEPT !.active = ~HasRecover(defers)]
    /\ defers' = <<>>
    /\ pc' = "done"
    /\ UNCHANGED <<inp, rowcount, r, events, collection, current, buildVars, execVars>>

Next ==
    \/ Start
    \/ Bind
    \/ Render
    \/ Issue
    \/ CheckDest
    \/ Iterate
    \/ Scan
    \/ Map
    \/ Acc
    \/ Finalize
    \/ Return
    \/ Unwind

Spec == Init /\ [][Next]_vars

-----------------------------------------------------------------------------
(* ExecContext *)

ExecInputs ==
    [ dbArg : BOOLEAN,          \* the db argument is not nil
      qDB : BOOLEAN,            \* q.DB is not nil
      hasColMapper : BOOLEAN,   \* q.ColumnMapper is not nil
      execErr : BOOLEAN,        \* db.Exec fails
      resNil : BOOLEAN,         \* db.Exec returns a nil sql.Result
      flag : BOOLEAN,           \* ErowsAffected&flag != 0
      affErr : BOOLEAN,         \* res.RowsAffected fails
      n : 0..MaxRows ]          \* rows the statement updates

RecoverExecPeaceful(v, e) == Recover(v, e)

RecoverExecFormatted(v, e) == Val("fmtError", 0, GoSyntax(v))

\* lines 425-431: the outcome of the deferred recover for panic value v; an
\* ExitCode is an error, there is no case of its own for it
RecoverExec(v, e) ==
    CASE IsError(v) -> v
      [] OTHER -> Val("fmtError", 0, GoSyntax(v))

InitExec ==
    /\ BuildIdle
    /\ pc = "xstart"
    /\ inp \in ExecInputs
    /\ err = NilErr
    /\ rowsAffected = 0
    /\ rowcount = 0
    /\ rows = NoRows
    /\ r = [dest |-> 0, index |-> 0]
    /\ defers = <<>>
    /\ panic = NoPanic
    /\ events = <<>>
    /\ collection = <<>>
    /\ current = 0

ExecStartUnchecked ==
    /\ pc = "xstart"
    /\ defers' = Append(defers, "recover")
    /\ pc' = "xrender"
    /\ UNCHANGED <<inp, err, rowsAffected, rowcount, rows, r, panic, events, collection,
                   current, buildVars>>

\* lines 416-433: the connection check, then the deferred recover
ExecStart ==
    /\ pc = "xstart"
    /\ IF ~inp.dbArg /\ ~inp.qDB
       THEN /\ err' = ErrDBNil
            /\ pc' = "xdone"
            /\ UNCHANGED defers
       ELSE /\ defers' = Append(defers, "recover")
            /\ pc' = "xrender"
            /\ UNCHANGED err
    /\ UNCHANGED <<inp, rowsAffected, rowcount, rows, r, panic, events, collection,
                   current, buildVars>>

\* lines 454-458: q.AppendSQL, which invokes the column mapper if one is bound
ExecRender ==
    /\ pc = "xrender"
    /\ events' = Append(events, Ev("render", 0))
    /\ \E out \in (IF inp.hasColMapper THEN Outcomes ELSE {Ok}) :
          IF out = Ok
          THEN /\ pc' = "xissue"
               /\ UNCHANGED panic
          ELSE /\ panic' = Raise(out, "column", 0)
               /\ pc' = "xunwind"
    /\ UNCHANGED <<inp, err, rowsAffected, rowcount, rows, r, defers, collection,
                   current, buildVars>>

\* lines 459-466: db.Exec / db.ExecContext
ExecIssue ==
    /\ pc = "xissue"
    /\ events' = Append(events, Ev("exec", 0))
    /\ err' = IF inp.execErr THEN ErrExec ELSE NilErr
    /\ pc' = IF inp.execErr THEN "xreturn" ELSE "xaffected"
    /\ UNCHANGED <<inp, rowsAffected, rowcount, rows, r, defers, panic, collection,
                   current, buildVars>>

\* lines 467-473: res.RowsAffected() when the flag asks for it; what the
\* driver returns as the count beside an error is the driver's choice
ExecAffected ==
    /\ pc = "xaffected"
    /\ IF ~inp.resNil /\ inp.flag
       THEN /\ events' = Append(events, Ev("affected", 0))
            /\ IF inp.affErr
               THEN /\ err' = ErrAffected
                    /\ rowsAffected' \in {0, inp.n}
               ELSE /\ err' = NilErr
                    /\ rowsAffected' = inp.n
       ELSE /\ err' = NilErr
            /\ UNCHANGED <<rowsAffected, events>>
    /\ pc' = "xreturn"
    /\ UNCHANGED <<inp, rowcount, rows, r, defers, panic, collection, current, buildVars>>

\* a return statement: the deferred function runs, recover() finds no panic
ExecReturn ==
    /\ pc = "xreturn"
    /\ defers' = <<>>
    /\ pc' = "xdone"
    /\ UNCHANGED <<inp, err, rowsAffected, rowcount, rows, r, panic, events, collection,
                   current, buildVars>>

\* a panic of the column mapper: lines 425-431 recover it
ExecUnwind ==
    /\ pc = "xunwind"
    /\ err' = IF HasRecover(defers) THEN RecoverExec(panic.v, err) ELSE err
    /\ panic' = [panic EXCEPT !.active = ~HasRecover(defers)]
    /\ defers' = <<>>
    /\ pc' = "xdone"
    /\ UNCHANGED <<inp, rowsAffected, rowcount, rows, r, events, collection, current,
                   buildVars>>

\* a call of FetchContext or a call of ExecContext
InitRun == Init \/ InitExec

NextRun ==
    \/ Start
    \/ Bind
    \/ Render
    \/ Issue
    \/ CheckDest
    \/ Iterate
    \/ Scan
    \/ Map
    \/ Acc
    \/ Finalize
    \/ Return
    \/ Unwind
    \/ ExecStart
    \/ ExecRender
    \/ ExecIssue
    \/ ExecAffected
    \/ ExecReturn
    \/ ExecUnwind

SpecRun == InitRun /\ [][NextRun]_vars

-----------------------------------------------------------------------------
(* Building statements: the base B is extended by a chain of combinator    *)
(* calls (B = B.Where(...)), then q1 and q2 are derived from it by one     *)
(* call each.                                                              *)

FetchIdle ==
    /\ pc = "idle"
    /\ inp = [dbArg |-> FALSE, qDB |-> FALSE, hasMapper |-> FALSE, hasAcc |-> FALSE,
              hasColMapper |-> FALSE, nDest |-> 0, n |-> 0, queryErr |-> FALSE,
              iterErr |-> FALSE, closeErr |-> FALSE]
    /\ err = NilErr
    /\ rowcount = 0
    /\ rowsAffected = 0
    /\ rows = NoRows
    /\ r = [dest |-> 0, index |-> 0]
    /\ defers = <<>>
    /\ panic = NoPanic
    /\ events = <<>>
    /\ collection = <<>>
    /\ current = 0

InitBuild ==
    /\ FetchIdle
    /\ heap = <<>>
    /\ regs = [B |-> Update(U), q1 |-> Unset, q2 |-> Unset]
    /\ made = [q1 |-> NoSQL, q2 |-> NoSQL]
    /\ calls = 0
    /\ sites = {"q1"}
    /\ shown = <<>>

Dsts == {"B", "q1", "q2"}

CanAssign(dst) ==
    CASE dst = "B" -> regs.q1 = Unset /\ regs.q2 = Unset
      [] dst = "q1" -> dst \in sites /\ regs.q1 = Unset /\ regs.q2 = Unset
      [] dst = "q2" -> dst \in sites /\ regs.q1 # Unset /\ regs.q2 = Unset

\* dst = B.<combinator>(...), with res the combinator's result
Call(dst, res) ==
    /\ CanAssign(dst)
    /\ dst = "B" => calls < MaxCalls
    /\ regs' = [regs EXCEPT ![dst] = res.q]
    /\ heap' = res.h
    /\ made' = IF dst = "B" THEN made ELSE [made EXCEPT ![dst] = ToSQL(res.q, res.h)]
    /\ calls' = IF dst = "B" THEN calls + 1 ELSE calls
    /\ sites' = sites
    /\ shown' = <<>>
    /\ UNCHANGED <<fetchVars, execVars>>

CallWith == \E dst \in Dsts : Call(dst, With(regs.B, heap, <<CTE1>>))

CallUpdate == \E dst \in Dsts, t \in {USERS, NilTable} : Call(dst, UpdateTable(regs.B, heap, t))

CallSet == \E dst \in Dsts, as \in {<<AX>>, <<AY>>} : Call(dst, Set(regs.B, heap, as))

CallSetx == \E dst \in Dsts, m \in ColumnMappers : Call(dst, Setx(regs.B, heap, m))

CallFrom == \E dst \in Dsts, t \in {S, SUBQ, CTE1} : Call(dst, From(regs.B, heap, t))

CallJoin == \E dst \in Dsts : Call(dst, Join(regs.B, heap, S, PJ, <<>>))

CallLeftJoin == \E dst \in Dsts : Call(dst, LeftJoin(regs.B, heap, S, PJ, <<PY>>))

CallRightJoin == \E dst \in Dsts : Call(dst, RightJoin(regs.B, heap, S, PJ, <<>>))

CallFullJoin == \E dst \in Dsts : Call(dst, FullJoin(regs.B, heap, S, PJ, <<>>))

CallCustomJoin ==
    \E dst \in Dsts : Call(dst, CustomJoin(regs.B, heap, "NATURAL JOIN", CTE1, <<>>))

CallWhere ==
    \E dst \in Dsts, ps \in {<<PX>>, <<PY>>, <<PX, PY>>} : Call(dst, Where(regs.B, heap, ps))

CallReturning ==
    \E dst \in Dsts, fs \in {<<FX>>, <<FY>>} : Call(dst, Returning(regs.B, heap, fs))

CallReturningOne == \E dst \in Dsts : Call(dst, ReturningOne(regs.B, heap))

CallReturningx == \E dst \in Dsts : Call(dst, Returningx(regs.B, heap, "mapper", "accumulator"))

CallReturningRowx == \E dst \in Dsts : Call(dst, ReturningRowx(regs.B, heap, "mapper"))

\* NestThis returns a Query, which offers no combinators: only q1 and q2 hold it
CallNestThis == \E dst \in {"q1", "q2"} : Call(dst, [q |-> NestThis(regs.B), h |-> heap])

NextBuild ==
    \/ CallWith
    \/ CallUpdate
    \/ CallSet
    \/ CallSetx
    \/ CallFrom
    \/ CallJoin
    \/ CallLeftJoin
    \/ CallRightJoin
    \/ CallFullJoin
    \/ CallCustomJoin
    \/ CallWhere
    \/ CallReturning
    \/ CallReturningOne
    \/ CallReturningx
    \/ CallReturningRowx
    \/ CallNestThis

SpecBuild == InitBuild /\ [][NextBuild]_vars

ToSQLReceiverByPointer(q) ==
    IF q.WherePredicate.Predicates.len > 0
    THEN [q EXCEPT !.WherePredicate.toplevel = TRUE]
    ELSE q

\* lines 42 and 58: ToSQL and AppendSQL have value receivers, so the
\* assignments of lines 63 and 115 reach a copy and the caller's value is as
\* it was
ToSQLReceiver(q) == q

\* B.ToSQL(), as long as no statement was derived from B
CallToSQL ==
    /\ regs.q1 = Unset
    /\ Len(shown) < MaxRenders
    /\ shown' = Append(shown, ToSQL(regs.B, heap))
    /\ regs' = [regs EXCEPT !.B = ToSQLReceiver(regs.B)]
    /\ UNCHANGED <<heap, made, calls, sites, fetchVars, execVars>>

CallWithCTE2 == \E dst \in Dsts : Call(dst, With(regs.B, heap, <<CTE2>>))

CallFromDerived ==
    \E dst \in Dsts, t \in {SUBQ2} \cup {AUTO(a) : a \in GeneratedAliases} :
        Call(dst, From(regs.B, heap, t))

CallJoinCTE ==
    \E dst \in Dsts : Call(dst, CustomJoin(regs.B, heap, "NATURAL JOIN", CTE2, <<>>))

\* q := Select(...).From(u); B.Join(q, q.Get("user_id").Eq(u.USER_ID))
CallJoinDerived ==
    \E dst \in Dsts, a \in GeneratedAliases :
        Call(dst, Join(regs.B, heap, AUTO(a),
                       Eq(QueryGet(AUTO(a), "user_id"), TableField("u", "user_id")), <<>>))

CallWhereGroup ==
    \E dst \in Dsts, ps \in {<<Or(<<PX, PY>>)>>, <<Or(<<PY>>)>>, <<PY, Or(<<PX, PY>>)>>} :
        Call(dst, Where(regs.B, heap, ps))

\* statements with nested groups, shared CTEs and derived tables, and their
\* rendering
NextRender ==
    \/ CallWithCTE2
    \/ CallSetx
    \/ CallFromDerived
    \/ CallCustomJoin
    \/ CallJoinCTE
    \/ CallJoinDerived
    \/ CallLeftJoin
    \/ CallWhere
    \/ CallWhereGroup
    \/ CallToSQL

SpecRender == InitBuild /\ [][NextRender]_vars

\* two call sites derive from the same base with the combinators that append
\* to a clause list
InitFork ==
    /\ FetchIdle
    /\ heap = <<>>
    /\ regs = [B |-> Update(U), q1 |-> Unset, q2 |-> Unset]
    /\ made = [q1 |-> NoSQL, q2 |-> NoSQL]
    /\ calls = 0
    /\ sites = {"q1", "q2"}
    /\ shown = <<>>

NextFork ==
    \/ CallWith
    \/ CallSet
    \/ CallJoin
    \/ CallWhere
    \/ CallReturning

SpecFork == InitFork /\ [][NextFork]_vars

-----------------------------------------------------------------------------
(* Building and rendering INSERT statements: B starts as InsertQuery{} and  *)
(* is extended by a chain of calls.                                         *)

MaxInsertCalls == 4

NilField == [k |-> "nil"]

InitInsert ==
    /\ FetchIdle
    /\ heap = <<>>
    /\ regs = [B |-> InsertQuery, q1 |-> Unset, q2 |-> Unset]
    /\ made = [q1 |-> NoSQL, q2 |-> NoSQL]
    /\ calls = 0
    /\ sites = {}
    /\ shown = <<>>

\* B = B.<combinator>(...)
InsertCall(q) ==
    /\ calls < MaxInsertCalls
    /\ regs' = [regs EXCEPT !.B = q]
    /\ calls' = calls + 1
    /\ shown' = <<>>
    /\ UNCHANGED <<heap, made, sites, fetchVars, execVars>>

CallInsertInto == \E t \in {U, USERS} : InsertCall(InsertInto(regs.B, t))

CallColumns ==
    \E fs \in {<<DISPLAYNAME, EMAIL>>, <<EMAIL, NilField, DISPLAYNAME>>} :
        InsertCall(Columns(regs.B, fs))

CallValues ==
    \E vs \in {<<Lit(61), Lit(62)>>, <<Lit(63), Lit(64)>>} : InsertCall(Values(regs.B, vs))

CallValuesx == \E m \in InsertMappers : InsertCall(Valuesx(regs.B, m))

CallInsertToSQL ==
    /\ Len(shown) < 1
    /\ shown' = Append(shown, InsertToSQL(regs.B))
    /\ UNCHANGED <<heap, regs, made, calls, sites, fetchVars, execVars>>

NextInsert ==
    \/ CallInsertInto
    \/ CallColumns
    \/ CallValues
    \/ CallValuesx
    \/ CallInsertToSQL

SpecInsert == InitInsert /\ [][NextInsert]_vars

-----------------------------------------------------------------------------
(* Statements whose assignments name fields of several tables, built on an *)
(* update table with or without an alias.                                  *)

\* u.email = u.displayname
AQ1 == FieldAssignment(EMAIL, DISPLAYNAME)

\* users.email = s.session_id
AQ2 == FieldAssignment(TableField("users", "email"), TableField("s", "session_id"))

\* s.session_id = 23
AQ3 == FieldAssignment(TableField("s", "session_id"), Value(Lit(23)))

CallSetQualified ==
    \E dst \in Dsts, as \in {<<AQ1>>, <<AQ2, AQ3>>, <<AQ1, AQ2>>} :
        Call(dst, Set(regs.B, heap, as))

NextClause ==
    \/ CallUpdate
    \/ CallSetQualified
    \/ CallFrom
    \/ CallFromDerived
    \/ CallJoin
    \/ CallWhere
    \/ CallReturning

SpecClause == InitBuild /\ [][NextClause]_vars

-----------------------------------------------------------------------------
(* Statements with several joins: with and without ON predicates, of base  *)
(* tables, CTEs and derived tables.                                        *)

\* CustomJoin(JoinTypeFull, u)
CallFullJoinBare ==
    \E dst \in Dsts : Call(dst, CustomJoin(regs.B, heap, JoinTypeFull, U, <<>>))

\* a derived table with an argument of its own, joined on a comparison with
\* a literal
CallJoinArgs == \E dst \in Dsts : Call(dst, Join(regs.B, heap, SUBQ, PX, <<>>))

NextJoins ==
    \/ CallCustomJoin
    \/ CallFullJoinBare
    \/ CallLeftJoin
    \/ CallJoinArgs

SpecJoins == InitBuild /\ [][NextJoins]_vars

-----------------------------------------------------------------------------
(* Malformed statements: nil tables, nil entries in lists.                 *)

\* a nil Assignment
NilAssignment == [k |-> "nil"]

\* Set(..., nil)
CallSetNil ==
    \E dst \in Dsts, as \in {<<NilAssignment>>, <<AX, NilAssignment>>} :
        Call(dst, Set(regs.B, heap, as))

\* Returning(..., nil, ...)
CallReturningNil ==
    \E dst \in Dsts, fs \in {<<NilField>>, <<FX, NilField, FY>>} :
        Call(dst, Returning(regs.B, heap, fs))

\* a join whose table is nil
CallJoinNil == \E dst \in Dsts : Call(dst, CustomJoin(regs.B, heap, "", NilTable, <<>>))

NextMalformed ==
    \/ CallUpdate
    \/ CallSet
    \/ CallSetNil
    \/ CallReturningNil
    \/ CallJoinNil
    \/ CallWhere

SpecMalformed == InitBuild /\ [][NextMalformed]_vars

-----------------------------------------------------------------------------
(* The statement FetchContext hands to the connection.                     *)

\* row mappers, each the fields it registers on the Row it is invoked on:
\* none, u.user_id, s.session_id and u.user_id
RowMappers == {"R0", "R1", "R2"}

RowMapperFields(m) ==
    CASE m = "R0" -> <<>>
      [] m = "R1" -> <<FX>>
      [] OTHER -> <<FY, FX>>

FetchStatementKeepsReturning(q, h) == [q |-> q, h |-> h]

\* lines 341-343: r := &Row{}; q.RowMapper(r); q.ReturningFields = r.fields
FetchStatement(q, h) ==
    IF RowMapperFields(q.RowMapper) = <<>>
    THEN [q |-> [q EXCEPT !.ReturningFields = NilSlice], h |-> h]
    ELSE Appended(q, GoAppend(h, NilSlice, RowMapperFields(q.RowMapper)), "ReturningFields")

\* lines 344-351: the text and the arguments of db.Query
FetchSQL(q, h) ==
    [query |-> UpdateAppendSQL(FetchStatement(q, h).q, EmptySt, FetchStatement(q, h).h).buf,
     args |-> UpdateAppendSQL(FetchStatement(q, h).q, EmptySt, FetchStatement(q, h).h).args]

CallReturningRows ==
    \E dst \in Dsts, m \in RowMappers : Call(dst, ReturningRowx(regs.B, heap, m))

\* B.Fetch(db), as long as no statement was derived from B: the statement
\* issued
CallFetch ==
    /\ regs.q1 = Unset
    /\ regs.B.RowMapper # NilFunc
    /\ Len(shown) < 1
    /\ shown' = Append(shown, FetchSQL(regs.B, heap))
    /\ UNCHANGED <<heap, regs, made, calls, sites, fetchVars, execVars>>

NextReturning ==
    \/ CallReturning
    \/ CallReturningOne
    \/ CallReturningRows
    \/ CallWhere
    \/ CallFetch

SpecReturning == InitBuild /\ [][NextReturning]_vars

-----------------------------------------------------------------------------
(* Statements with assignments given to Set and a column mapper given to   *)
(* Setx, in either order, rendered more than once.                         *)

CallSetxMore == \E dst \in Dsts, m \in {"M0", "M2"} : Call(dst, Setx(regs.B, heap, m))

NextSetx ==
    \/ CallSet
    \/ CallSetx
    \/ CallSetxMore
    \/ CallToSQL

SpecSetx == InitBuild /\ [][NextSetx]_vars







-----------------------------------------------------------------------------
(* Properties of FetchContext *)

\* db.Query / db.QueryContext returned a cursor without error
QueryOk == rows.state # "none"

ScansOk == ~\E i \in 1..Len(events) : events[i].e = "scanerr"

Returned == pc = "done"

\* C1: once the connection has returned a cursor, the cursor is closed when
\* FetchContext returns, on every exit path (no destinations, scan error,
\* single-row break, zero rows, end of iteration, panic of a callback).
C1_CursorClosed == (Returned /\ QueryOk) => rows.state = "closed"

C1_Witness ==
    /\ Returned /\ rows.state = "closed"
    /\ panic.seen /\ panic.by = "mapper" /\ panic.row = 1 /\ panic.v = ErrTest

C2_Case == Returned /\ QueryOk /\ ~inp.hasAcc /\ r.dest >= 1 /\ inp.n >= 1

C2_Result ==
    /\ Count("mapper") = 2
    /\ CountRow("mapper", 0) = 1 /\ CountRow("mapper", 1) = 1
    /\ Pos("mapper", 0) < Pos("query", 0)
    /\ Count("scan") = 1
    /\ \A i \in 2..inp.n : ~Happened("scan", i)
    /\ err = NilErr

\* C2 as stated: without an accumulator, with at least one destination and a
\* result set of N >= 1 rows, the mapper runs exactly twice, exactly one row
\* is scanned and the fetch returns no error.
C2_Original == C2_Case => C2_Result

\* C2 amended: the same, provided the scan of row 1 succeeds, the mapper does
\* not abort on row 1 with a value other than ExitPeacefully and closing the
\* cursor reports no error.
C2_SingleRow ==
    (C2_Case /\ ScansOk /\ ~(panic.seen /\ panic.v # ExitPeacefully) /\ ~inp.closeErr)
        => C2_Result

C2_Witness ==
    /\ C2_Case /\ ScansOk /\ ~panic.seen /\ ~inp.closeErr
    /\ inp.n >= 2 /\ Count("scan") = 1 /\ err = NilErr

C3_Case == Returned /\ QueryOk /\ inp.hasAcc /\ ScansOk /\ ~panic.seen

C3_Result ==
    /\ Count("acc") = inp.n
    /\ Count("mapper") = inp.n + 1
    /\ \A i \in 1..inp.n :
          /\ CountRow("scan", i) = 1 /\ CountRow("reset", i) = 1
          /\ CountRow("mapper", i) = 1 /\ CountRow("acc", i) = 1
          /\ Pos("scan", i) < Pos("reset", i)
          /\ Pos("reset", i) < Pos("mapper", i)
          /\ Pos("mapper", i) < Pos("acc", i)
          /\ i < inp.n => Pos("acc", i) < Pos("scan", i + 1)

\* C3 as stated: with an accumulator and N rows that scan successfully and
\* callbacks that do not panic, the accumulator runs N times, the mapper N+1
\* times, in the order scan(i), reset, mapper(i), accumulator(i), row by row.
C3_Original == C3_Case => C3_Result

\* C3 amended: the same, for a mapper that registers at least one destination.
C3_PerRowOrder == (C3_Case /\ r.dest >= 1) => C3_Result

C3_Witness ==
    /\ C3_Case /\ r.dest >= 1 /\ inp.n >= 2
    /\ Count("acc") = inp.n /\ collection = <<1, 2>> \o [k \in 1..(inp.n - 2) |-> k + 2]

C4_Case == Returned /\ QueryOk /\ inp.n = 0 /\ ~inp.iterErr

\* C4 as stated: a fetch whose query succeeds and produces zero rows returns
\* sql.ErrNoRows without an accumulator, and nil with the accumulator never
\* invoked when one was supplied.
C4_Original ==
    C4_Case => /\ ~inp.hasAcc => err = ErrNoRows
               /\ inp.hasAcc => (err = NilErr /\ Count("acc") = 0)

\* C4 amended: the not-found condition is returned when the mapper registered
\* at least one destination; with an accumulator the fetch returns nil and
\* never invokes it.
C4_ZeroRows ==
    C4_Case => /\ (~inp.hasAcc /\ r.dest >= 1) => err = ErrNoRows
               /\ inp.hasAcc => (err = NilErr /\ Count("acc") = 0)

C4_Witness ==
    /\ C4_Case /\ ~inp.hasAcc /\ r.dest >= 1 /\ err = ErrNoRows

\* C5: when the accumulator signals ExitPeacefully on row i, the fetch returns
\* nil, no row after i is scanned or mapped, and what the accumulator folded
\* for rows 1..i-1 is intact.
C5_PeacefulStop ==
    (Returned /\ panic.seen /\ panic.by = "acc" /\ panic.v = ExitPeacefully)
        => /\ err = NilErr
           /\ \A k \in 1..Len(events) : events[k].row <= panic.row
           /\ events[Len(events)] = Ev("acc", panic.row)
           /\ collection = [k \in 1..(panic.row - 1) |-> k]

C5_Witness ==
    /\ Returned /\ panic.seen /\ panic.by = "acc" /\ panic.v = ExitPeacefully
    /\ panic.row = 2 /\ inp.n > 2 /\ collection = <<1>>

\* C6: an abrupt exit of the mapper or accumulator with value v is normalized
\* by v alone: ExitPeacefully gives nil, another ExitCode gives v, an error
\* gives v, any other value gives a generic error whose message is the
\* formatted value (panic(0) gives "0"); iteration stops at that row.
C6_Normalized ==
    (Returned /\ panic.seen /\ panic.by \in {"mapper", "acc"})
        => /\ ~panic.active
           /\ panic.v = ExitPeacefully => err = NilErr
           /\ panic.v = ExitCode(1) => err = ExitCode(1)
           /\ panic.v = ErrTest => err = ErrTest
           /\ panic.v = Val("int", 0, "") => err = Val("fmtError", 0, "0")
           /\ panic.v = Val("string", 0, "boom") => err = Val("fmtError", 0, "\"boom\"")
           /\ events[Len(events)] = Ev(panic.by, panic.row)
           /\ rowcount = panic.row

C6_Witness ==
    /\ Returned /\ panic.seen /\ panic.by = "mapper" /\ panic.row = 2
    /\ panic.v = Val("string", 0, "boom") /\ err.t = "fmtError"

\* the cursor ended the iteration with a pending error: Next returned false
\* and rows.Err() holds the error
CursorFailed == rows.lasterr = ErrIter

\* C19: when the iteration of a fetch ends because the cursor reports an
\* error, FetchContext returns that error, for every number of rows already
\* delivered (zero included), with or without an accumulator.
C19_CursorError == (Returned /\ CursorFailed) => err = ErrIter

\* the discovery invocation of the row mapper completed and registered no
\* destination
C20_Case ==
    /\ Returned /\ CountRow("mapper", 0) = 1
    /\ ~(panic.seen /\ panic.by = "mapper")
    /\ inp.nDest = 0

C20_Result ==
    /\ Count("query") = 1
    /\ ~inp.queryErr =>
          /\ err = NilErr
          /\ Count("mapper") = 1 /\ Count("acc") = 0 /\ Count("scan") = 0
          /\ rowcount = 0 /\ rows.pos = 0

-----------------------------------------------------------------------------
(* Properties of ExecContext and of the errors of both calls *)

ExecReturned == pc = "xdone"

NoConnection == ~inp.dbArg /\ ~inp.qDB

\* C16: when the column mapper panics with an error value e during
\* ExecContext, the call returns exactly e with rowsAffected = 0 and the
\* connection's Exec is never called.
C16_ColumnMapperError ==
    (ExecReturned /\ panic.seen /\ panic.by = "column" /\ IsError(panic.v))
        => /\ err = panic.v
           /\ ~panic.active
           /\ rowsAffected = 0
           /\ Count("exec") = 0 /\ Count("affected") = 0

C16_Witness ==
    /\ ExecReturned /\ panic.seen /\ panic.by = "column" /\ panic.v = ErrTest
    /\ err = ErrTest /\ inp.flag /\ inp.n >= 1 /\ ~inp.execErr

\* C17: FetchContext returns an error without invoking the row mapper, the
\* accumulator or the connection when no connection is available or no row
\* mapper is bound; ExecContext returns an error without calling the
\* connection when no connection is available.
C17_NothingInvoked ==
    /\ (Returned /\ NoConnection) => (err = ErrDBNil /\ events = <<>>)
    /\ (Returned /\ ~NoConnection /\ ~inp.hasMapper) => (err = ErrNoMapper /\ events = <<>>)
    /\ (ExecReturned /\ NoConnection)
          => (err = ErrDBNil /\ events = <<>> /\ rowsAffected = 0)

C17_Witness ==
    /\ Returned /\ inp.qDB /\ ~inp.dbArg /\ ~inp.hasMapper
    /\ err = ErrNoMapper /\ events = <<>> /\ inp.n >= 1

C18_QueryVerbatim ==
    /\ (Returned /\ Count("query") = 1 /\ inp.queryErr)
          => (err = ErrQuery /\ Count("scan") = 0 /\ Count("acc") = 0)
    /\ (ExecReturned /\ Count("exec") = 1 /\ inp.execErr)
          => (err = ErrExec /\ rowsAffected = 0)

C18_ScanCase(i) == Returned /\ Happened("scanerr", i)

C18_NotMapped(i) == ~Happened("mapper", i) /\ ~Happened("acc", i)

\* C18 as stated: when the connection's query or exec call or a row scan
\* fails with error e, the call returns e itself, and neither the mapper nor
\* the accumulator is invoked for the failing row.
C18_Original ==
    /\ C18_QueryVerbatim
    /\ \A i \in 1..MaxRows + 1 : C18_ScanCase(i) => (err = ErrScan /\ C18_NotMapped(i))

\* C18 amended: an error of the query or exec call is returned itself; an
\* error of a row scan is returned wrapped in a new error, and neither the
\* mapper nor the accumulator is invoked for the failing row.
C18_ErrorsPropagated ==
    /\ C18_QueryVerbatim
    /\ \A i \in 1..MaxRows + 1 :
          C18_ScanCase(i) => /\ err = WrapScan(ErrScan)
                             /\ err # ErrScan
                             /\ C18_NotMapped(i)

C18_Witness ==
    /\ C18_ScanCase(2) /\ inp.hasAcc /\ err = WrapScan(ErrScan)
    /\ Happened("acc", 1) /\ rows.state = "closed"

-----------------------------------------------------------------------------
(* Properties of building and rendering *)

Derived == {"q1", "q2"}

MapperPanics(q) ==
    q.ColumnMapper # NilFunc /\ ColumnMapperRun(q.ColumnMapper).panic # NilErr

Placeholders(buf) == SelectSeq(buf, LAMBDA t : t.s \in {"?", "$"})

HasToken(buf, str) == \E i \in 1..Len(buf) : buf[i].s = str

\* C7 as stated: two statements derived from the same base by separate
\* combinator calls do not share mutable storage: each keeps rendering the
\* base's clauses plus its own addition, which is what it rendered when it was
\* derived, whatever call is made afterwards.
C7_ForksIndependent ==
    \A x \in Derived : regs[x] # Unset => ToSQL(regs[x], heap) = made[x]

\* C8: a combinator call leaves its receiver unchanged: the SQL text and the
\* arguments rendered from the receiver are the same before and after the call.
C8_ReceiverUnchanged == [][ToSQL(regs.B, heap') = ToSQL(regs.B, heap)]_vars

C8_Witness ==
    /\ regs.q1 # Unset
    /\ regs.B.WherePredicate.Predicates.len = 3
    /\ regs.q1.WherePredicate.Predicates.arr = regs.B.WherePredicate.Predicates.arr
    /\ regs.q1.WherePredicate.Predicates.len = 4
    /\ Len(ToSQL(regs.B, heap).args) = 3

\* the statement held by x is an outermost statement
C9_Case(x) == regs[x] # Unset /\ ~regs[x].nested

\* the placeholders are $1..$K in textual order, K = len(args), the i-th
\* standing where the i-th argument was written
C9_Bound(sql) ==
    LET ph == Placeholders(sql.query)
    IN /\ Len(ph) = Len(sql.args)
       /\ \A i \in 1..Len(ph) :
             ph[i].s = "$" /\ ph[i].n = i /\ ph[i].of = sql.args[i]

C10_RewriteOnce ==
    \A x \in Dsts : (regs[x] # Unset /\ ~MapperPanics(regs[x])) =>
        LET inner == UpdateAppendSQL(NestThis(regs[x]), EmptySt, heap)
            outer == UpdateAppendSQL(regs[x], EmptySt, heap)
        IN /\ ~HasToken(inner.buf, "WITH ")
           /\ ~HasToken(inner.buf, "$")
           /\ inner.passes = 0
           /\ Len(Placeholders(inner.buf)) = Len(inner.args)
           /\ ~regs[x].nested =>
                 /\ outer.passes = 1
                 /\ ~HasToken(outer.buf, "?")
                 /\ Len(Placeholders(outer.buf)) = Len(outer.args)

C10_Witness ==
    /\ regs.q1 # Unset /\ ~regs.q1.nested
    /\ regs.q1.FromTable = SUBQ /\ regs.q1.CTEs.len = 1
    /\ UpdateAppendSQL(NestThis(regs.q1), EmptySt, heap).args = <<Lit(41), Lit(11)>>
    /\ UpdateAppendSQL(regs.q1, EmptySt, heap).args = <<Lit(31), Lit(41), Lit(11)>>

Renders(x) == regs[x] # Unset /\ ~regs[x].nested /\ ~MapperPanics(regs[x])

CTENames == {"cte1", "cte2"}

\* the literal of the body of each CTE
CTEBodyArg(name) == IF name = "cte1" THEN Lit(31) ELSE Lit(32)

\* the tables in FROM or JOIN position of statement q and of the statement
\* nested in its FROM clause, in clause order
TablePositions(q, h) ==
    <<q.FromTable>>
        \o (IF q.FromTable.k = "select" THEN <<q.FromTable.FromTable>> ELSE <<>>)
        \o JoinedTables(Elems(h, q.JoinTables))

\* the positions where q or its nested statement uses the CTE as a table
CTEUses(q, h, name) ==
    {i \in 1..Len(TablePositions(q, h)) :
        TablePositions(q, h)[i].k = "cte" /\ TablePositions(q, h)[i].name = name}

\* the CTE is passed to With(...) of q or of its nested statement
CTEDeclared(q, h, name) ==
    \/ \E i \in 1..q.CTEs.len : Elems(h, q.CTEs)[i].name = name
    \/ /\ q.FromTable.k = "select"
       /\ \E i \in 1..Len(q.FromTable.CTEs) : q.FromTable.CTEs[i].name = name

\* the tokens "name AS (" of the text: the declarations of the CTE
DeclTokens(buf, name) ==
    {i \in 1..(Len(buf) - 1) : buf[i].s = name /\ buf[i + 1].s = " AS ("}

\* the tokens where the name stands in table position
UseTokens(buf, name) ==
    {i \in 2..Len(buf) :
        /\ buf[i].s = name /\ buf[i - 1].s \in {" FROM ", " "}
        /\ i < Len(buf) => buf[i + 1].s \notin {" AS (", "."}}

FirstToken(buf, str) == CHOOSE i \in 1..Len(buf) : buf[i].s = str /\ \A j \in 1..(i - 1) : buf[j].s # str

C12_Shape(q, h, sql, name) ==
    /\ Cardinality(UseTokens(sql.query, name)) = Cardinality(CTEUses(q, h, name))
    /\ Cardinality(DeclTokens(sql.query, name)) =
          (IF CTEUses(q, h, name) # {} \/ CTEDeclared(q, h, name) THEN 1 ELSE 0)
    /\ \A i \in DeclTokens(sql.query, name) : i < FirstToken(sql.query, "UPDATE ")
    /\ Cardinality({i \in 1..Len(sql.args) : sql.args[i] = CTEBodyArg(name)}) =
          Cardinality(DeclTokens(sql.query, name))

\* the CTEs passed to With(...) are declared in the order they were passed,
\* before those that are only used as tables
C12_Order(q, h, sql) ==
    \A i \in 1..q.CTEs.len, n \in CTENames :
        LET c == Elems(h, q.CTEs)[i].name
        IN (n # c /\ DeclTokens(sql.query, n) # {}
              /\ ~\E j \in 1..i : Elems(h, q.CTEs)[j].name = n)
             => \A a \in DeclTokens(sql.query, c), b \in DeclTokens(sql.query, n) : a < b

\* C12: a CTE used as FROM or JOIN target, at any nesting depth, renders at
\* the point of use as its name only, and the WITH prefix of the outermost
\* statement holds its body exactly once, in declaration order, also when it
\* is used more than once or is both passed to With(...) and joined.
C12_CTEOnce ==
    \A x \in Dsts : Renders(x) =>
        /\ \A n \in CTENames : C12_Shape(regs[x], heap, ToSQL(regs[x], heap), n)
        /\ C12_Order(regs[x], heap, ToSQL(regs[x], heap))

C12_Witness ==
    /\ Renders("q1") /\ regs.q1.CTEs.len = 1 /\ regs.q1.FromTable = SUBQ2
    /\ Cardinality(CTEUses(regs.q1, heap, "cte2")) = 2
    /\ Cardinality(DeclTokens(made.q1.query, "cte2")) = 1
    /\ made.q1.args = <<Lit(32), Lit(42)>>

\* a statement built without As(...): its alias is a generated one
Generated(t) == t.k = "select" /\ t.alias \in GeneratedAliases

\* the text holds ") AS alias" at position i
AliasAt(buf, i, alias) ==
    /\ i + 2 <= Len(buf)
    /\ buf[i].s = ")" /\ buf[i + 1].s = " AS " /\ buf[i + 2].s = alias

\* the join rendered alone: ") AS alias ON alias.user_id = ...", the column
\* obtained from the query qualified by the alias written after the subquery
C13_Join(j, h) ==
    LET a == TableGetAlias(j.Table)
        buf == JoinTableAppendSQL(EmptySt, j, h).buf
    IN /\ a # ""
       /\ a = QueryGet(j.Table, "user_id").qual
       /\ \E i \in 1..Len(buf) :
             /\ AliasAt(buf, i, a)
             /\ i + 5 <= Len(buf)
             /\ buf[i + 3].s = " ON " /\ buf[i + 4].s = a /\ buf[i + 5].s = "."
       /\ Cardinality({i \in 1..Len(buf) : buf[i].s = " AS " /\ buf[i - 1].s = ")"}) = 1

LastToken(buf, str) ==
    CHOOSE i \in 1..Len(buf) : buf[i].s = str /\ \A j \in (i + 1)..Len(buf) : buf[j].s # str

\* the text of the WHERE clause: from the last " WHERE " to " RETURNING " or
\* to the end
WhereText(buf) ==
    LET from == LastToken(buf, " WHERE ") + 1
        to == IF HasToken(buf, " RETURNING ")
              THEN LastToken(buf, " RETURNING ") - 1 ELSE Len(buf)
    IN SubSeq(buf, from, to)

\* the text of the ON clause of a join rendered alone
OnText(buf) == SubSeq(buf, LastToken(buf, " ON ") + 1, Len(buf))

CountToken(buf, str) == Cardinality({i \in 1..Len(buf) : buf[i].s = str})

\* the members of the list that are groups of two or more members
Groups(ps) == {i \in 1..Len(ps) : ps[i].k = "variadic" /\ Len(ps[i].Predicates) >= 2}

\* the members of a list of comparisons and groups render joined by AND, the
\* groups of two or more members in parentheses and joined by OR, nothing else
\* in parentheses
C14_Shape(text, ps) ==
    /\ CountToken(text, " AND ") = Len(ps) - 1
    /\ CountToken(text, "(") = Cardinality(Groups(ps))
    /\ CountToken(text, ")") = Cardinality(Groups(ps))
    /\ CountToken(text, " OR ") =
          Cardinality({ij \in (1..Len(ps)) \X (2..3) :
                          ij[1] \in Groups(ps) /\ ij[2] <= Len(ps[ij[1]].Predicates)})
    /\ text[1].s = "(" <=> 1 \in Groups(ps)
    /\ text[Len(text)].s = ")" <=> Len(ps) \in Groups(ps)

\* C14: the predicate list of a WHERE or ON clause renders as its members
\* joined by AND without enclosing parentheses, whatever their number; a
\* nested group is in parentheses if and only if it has two or more members.
C14_PredicateList ==
    \A x \in Dsts : Renders(x) =>
        /\ regs[x].WherePredicate.Predicates.len > 0 =>
              C14_Shape(WhereText(ToSQL(regs[x], heap).query),
                        Elems(heap, regs[x].WherePredicate.Predicates))
        /\ \A k \in 1..regs[x].JoinTables.len :
              LET j == Elems(heap, regs[x].JoinTables)[k]
              IN Len(j.OnPredicates) > 0 =>
                    C14_Shape(OnText(JoinTableAppendSQL(EmptySt, j, heap).buf), j.OnPredicates)

C14_Witness ==
    /\ Renders("q1")
    /\ Elems(heap, regs.q1.WherePredicate.Predicates) = <<PX, PY, Or(<<PX, PY>>)>>
    /\ CountToken(WhereText(made.q1.query), " AND ") = 2
    /\ CountToken(WhereText(made.q1.query), "(") = 1
    /\ made.q1.args = <<Lit(11), Lit(12), Lit(11), Lit(12)>>

\* C15: when the column mapper invoked during ToSQL aborts abruptly with value
\* v, ToSQL returns the empty string as the query and an argument list whose
\* single element is v.
C15_MapperAbort ==
    /\ \A x \in Dsts : (regs[x] # Unset /\ MapperPanics(regs[x])) =>
          /\ ToSQL(regs[x], heap).query = <<>>
          /\ ToSQL(regs[x], heap).args = <<ColumnMapperRun(regs[x].ColumnMapper).panic>>
    /\ (regs.B # Unset /\ MapperPanics(regs.B)) =>
          \A i \in 1..Len(shown) :
              shown[i] = [query |-> <<>>, args |-> <<ColumnMapperRun(regs.B.ColumnMapper).panic>>]

C15_Witness ==
    /\ regs.B.ColumnMapper = "MPANICV" /\ regs.B.WherePredicate.Predicates.len = 2
    /\ Len(shown) = 1
    /\ shown[1] = [query |-> <<>>, args |-> <<Val("string", 0, "boom")>>]

-----------------------------------------------------------------------------
(* INSERT statements *)

RECURSIVE Flatten(_)
Flatten(rs) == IF rs = <<>> THEN <<>> ELSE Head(rs) \o Flatten(Tail(rs))

\* the text after VALUES
ValuesText(buf) == SubSeq(buf, FirstToken(buf, " VALUES ") + 1, Len(buf))

\* the text of the column list, between " (" and the first ")"
ColumnsText(buf) == SubSeq(buf, FirstToken(buf, " (") + 1, FirstToken(buf, ")") - 1)

\* the text after VALUES is Len(flat) / k rows "(" $ ", " $ ... ")" separated
\* by ", ", whose placeholders are numbered row by row and stand for the values
\* of flat in order, and the arguments are flat
C21_Shape(sql, k, flat) ==
    LET n == Len(flat) \div k
        text == ValuesText(sql.query)
        row(x) == (x - 1) * (2 * k + 2)
    IN /\ sql.args = flat
       /\ Len(text) = n * (2 * k + 2) - 1
       /\ \A x \in 1..n :
             /\ text[row(x) + 1].s = "("
             /\ text[row(x) + 2 * k + 1].s = ")"
             /\ x > 1 => text[row(x)].s = ", "
             /\ \A c \in 1..k :
                   text[row(x) + 2 * c] = Dollar(flat[(x - 1) * k + c], (x - 1) * k + c)
             /\ \A c \in 2..k : text[row(x) + 2 * c - 1].s = ", "

\* the column list is written once and names the fields in order
C21_Columns(sql, fields) ==
    /\ CountToken(sql.query, " (") = 1
    /\ CountToken(ColumnsText(sql.query), ", ") = Len(fields) - 1
    /\ SelectSeq(ColumnsText(sql.query), LAMBDA t : t.s \notin {", ", ".", "u"})
          = [i \in 1..Len(fields) |-> Tok(fields[i].name)]

\* the number of columns a mapper sets: the setter calls before the first
\* field is set again
MapperColumns(sets) ==
    IF \E i \in 2..Len(sets) : sets[i].Field = sets[1].Field
    THEN (CHOOSE i \in 2..Len(sets) :
             sets[i].Field = sets[1].Field /\ \A j \in 2..(i - 1) : sets[j].Field # sets[1].Field) - 1
    ELSE Len(sets)

\* C21: an INSERT built with n Values(...) calls of k values each renders n
\* parenthesized rows in call order and binds the n*k arguments row by row; a
\* Valuesx column mapper that sets the same k columns n times in the same order
\* renders the column list once and n rows whose n*k arguments are in the
\* order of the setter calls.
C21_RowMajor ==
    Len(shown) = 1 =>
        /\ (regs.B.ColumnMapper = NilFunc /\ regs.B.RowValues # <<>>) =>
              C21_Shape(shown[1], Len(regs.B.RowValues[1]), Flatten(regs.B.RowValues))
        /\ regs.B.ColumnMapper # NilFunc =>
              LET sets == InsertMapperSets(regs.B.ColumnMapper)
                  k == MapperColumns(sets)
              IN /\ C21_Shape(shown[1], k, [i \in 1..Len(sets) |-> sets[i].Value])
                 /\ C21_Columns(shown[1], [i \in 1..k |-> sets[i].Field])

\* Values(61, 62).Values(63, 64) after InsertInto and Columns
C21_Witness ==
    /\ Len(shown) = 1
    /\ regs.B.ColumnMapper = NilFunc
    /\ regs.B.IntoTable = U
    /\ regs.B.InsertColumns = <<DISPLAYNAME, EMAIL>>
    /\ shown[1].args = <<Lit(61), Lit(62), Lit(63), Lit(64)>>
    /\ CountToken(shown[1].query, "(") = 2

C21_MapperWitness ==
    /\ Len(shown) = 1
    /\ regs.B.ColumnMapper = "V2"
    /\ regs.B.InsertColumns = <<EMAIL, NilField, DISPLAYNAME>>
    /\ Len(regs.B.RowValues) = 1
    /\ shown[1].args = <<Lit(71), Lit(72), Lit(73), Lit(74)>>


-----------------------------------------------------------------------------
(* The clauses of an UPDATE statement *)

\* the number of parentheses open at token i
Depth(buf, i) ==
    Cardinality({j \in 1..(i - 1) : buf[j].s \in {"(", " AS (", " ("}})
        - Cardinality({j \in 1..(i - 1) : buf[j].s = ")"})

JoinKeywords == {JoinTypeInner, JoinTypeLeft, JoinTypeRight, JoinTypeFull, "NATURAL JOIN"}

\* the position of a clause in standard SQL order, 0 for any other token
Rank(str) ==
    CASE str = "WITH " -> 1
      [] str = "UPDATE " -> 2
      [] str = " SET " -> 3
      [] str = " FROM " -> 4
      [] str \in JoinKeywords -> 5
      [] str = " WHERE " -> 6
      [] str = " RETURNING " -> 7
      [] OTHER -> 0

\* the tokens of the statement itself, outside every parenthesis
TopLevel(buf) == {i \in 1..Len(buf) : Depth(buf, i) = 0}

\* the keywords of the statement's own clauses
Keywords(buf) == {i \in TopLevel(buf) : Rank(buf[i].s) > 0}

CountTop(buf, strs) == Cardinality({i \in TopLevel(buf) : buf[i].s \in strs})

\* the statements that render: those whose column mapper returns
Rendering == {x \in Dsts : regs[x] # Unset /\ ~MapperPanics(regs[x])}

C22_Order(buf) ==
    \A i, j \in Keywords(buf) :
        i < j => \/ Rank(buf[i].s) < Rank(buf[j].s)
                 \/ Rank(buf[i].s) = 5 /\ Rank(buf[j].s) = 5

C22_Omitted(q, h, buf) ==
    /\ CountTop(buf, {"UPDATE "}) = 1
    /\ CountTop(buf, {" SET "}) = (IF Len(MappedAssignments(q, h)) > 0 THEN 1 ELSE 0)
    /\ CountTop(buf, {" FROM "}) = (IF q.FromTable.k # "nil" THEN 1 ELSE 0)
    /\ CountTop(buf, JoinKeywords) = q.JoinTables.len
    /\ CountTop(buf, {" WHERE "}) = (IF q.WherePredicate.Predicates.len > 0 THEN 1 ELSE 0)
    /\ CountTop(buf, {" RETURNING "}) = (IF q.ReturningFields.len > 0 THEN 1 ELSE 0)
    /\ CountTop(buf, {" "}) = 2 * q.JoinTables.len + CountTop(buf, {"WITH "})
    /\ Rank(buf[Len(buf)].s) = 0 /\ buf[Len(buf)].s \notin {" ", ", "}
    /\ \A i \in Keywords(buf) : Rank(buf[i + 1].s) = 0 /\ buf[i + 1].s # ", "

\* C22: an UPDATE statement renders its clauses in the order WITH, UPDATE, SET,
\* FROM, JOIN, WHERE, RETURNING whatever the order of the combinator calls, and
\* a clause with no elements (assignments, FROM table, joins, WHERE predicates,
\* RETURNING fields) writes no keyword and no separator.
C22_ClauseOrder ==
    \A x \in Rendering :
        /\ C22_Order(ToSQL(regs[x], heap).query)
        /\ C22_Omitted(regs[x], heap, ToSQL(regs[x], heap).query)

\* Where was called before Set, and From last: the text has SET, FROM, WHERE
C22_Witness ==
    /\ regs.q1 # Unset /\ regs.q1.FromTable = S
    /\ regs.q1.WherePredicate.Predicates.arr = 1 /\ regs.q1.Assignments.arr = 2
    /\ regs.q1.JoinTables.len = 0 /\ regs.q1.ReturningFields.len = 0
    /\ [i \in 1..3 |-> made.q1.query[
           CHOOSE p \in Keywords(made.q1.query) :
               Cardinality({o \in Keywords(made.q1.query) : o < p}) = i].s]
          = <<" SET ", " FROM ", " WHERE ">>


-----------------------------------------------------------------------------
(* Table qualifiers *)

Qualifiers == {"u", "s", "users"}

RECURSIVE Sum(_)
Sum(ns) == IF ns = <<>> THEN 0 ELSE Head(ns) + Sum(Tail(ns))

\* the occurrences of "qual." in a text
Qualified(text, qual) ==
    Cardinality({i \in 1..(Len(text) - 1) : text[i].s = qual /\ text[i + 1].s = "."})

\* the fields of table qual among the operands, fields and predicates
QualOfValue(v, qual) == IF v.k = "field" /\ v.qual = qual THEN 1 ELSE 0

QualOfPairs(ps, qual) ==
    Sum([i \in 1..Len(ps) |->
            IF ps[i].k = "assign"
            THEN QualOfValue(ps[i].Field, qual) + QualOfValue(ps[i].Value, qual)
            ELSE QualOfValue(ps[i].left, qual) + QualOfValue(ps[i].right, qual)])

QualOfFields(fs, qual) == Sum([i \in 1..Len(fs) |-> QualOfValue(fs[i], qual)])

RECURSIVE QualOfTable(_, _)
QualOfTable(t, qual) ==
    IF t.k = "select"
    THEN QualOfFields(t.SelectFields, qual) + QualOfPairs(t.Predicates, qual)
            + QualOfTable(t.FromTable, qual)
    ELSE 0

QualOfJoins(js, qual) ==
    Sum([i \in 1..Len(js) |->
            QualOfTable(js[i].Table, qual) + QualOfPairs(js[i].OnPredicates, qual)])

\* the first keyword of the statement's own clauses after token i, or the end
NextKeyword(buf, i) ==
    IF \E j \in Keywords(buf) : j > i
    THEN CHOOSE j \in Keywords(buf) : j > i /\ \A o \in Keywords(buf) : o > i => j <= o
    ELSE Len(buf) + 1

TopToken(buf, str) == CHOOSE i \in TopLevel(buf) : buf[i].s = str

\* the text of the SET clause and the text that follows it
SetText(buf) ==
    SubSeq(buf, TopToken(buf, " SET ") + 1, NextKeyword(buf, TopToken(buf, " SET ")) - 1)

AfterSetText(buf) == SubSeq(buf, NextKeyword(buf, TopToken(buf, " SET ")), Len(buf))

\* the qualifier of the table being updated
Own(q) ==
    IF q.UpdateTable.alias # "" THEN q.UpdateTable.alias ELSE q.UpdateTable.name

C23_Set(q, h, buf) ==
    \A o \in Qualifiers :
        /\ Qualified(SetText(buf), o) =
              (IF o = Own(q) THEN 0 ELSE QualOfPairs(Elems(h, q.Assignments), o))
        /\ Qualified(AfterSetText(buf), o) =
              QualOfTable(q.FromTable, o) + QualOfJoins(Elems(h, q.JoinTables), o)
                 + QualOfPairs(Elems(h, q.WherePredicate.Predicates), o)
                 + QualOfFields(Elems(h, q.ReturningFields), o)

\* the statements with an update table and a SET clause
C23_Case(x) ==
    regs[x] # Unset /\ regs[x].UpdateTable.k # "nil" /\ regs[x].Assignments.len > 0

\* C23: in the SET clause the fields of the table being updated are written
\* without qualifier, on both sides of an assignment, the qualifier being the
\* table's alias if it has one and its name otherwise; the fields of other
\* tables in SET, and every field in FROM, JOIN, WHERE and RETURNING, keep
\* their qualifier.
C23_Qualifiers ==
    \A x \in Dsts : C23_Case(x) => C23_Set(regs[x], heap, ToSQL(regs[x], heap).query)

\* UPDATE public.users AS u SET email = displayname WHERE u.user_id = $1
C23_Witness ==
    /\ regs.q1 # Unset /\ regs.q1.UpdateTable = U
    /\ Elems(heap, regs.q1.Assignments) = <<AQ1>>
    /\ Elems(heap, regs.q1.WherePredicate.Predicates) = <<PX>>
    /\ SetText(made.q1.query) = <<Tok("email"), Tok(" = "), Tok("displayname")>>
    /\ Qualified(AfterSetText(made.q1.query), "u") = 1

\* UPDATE public.users SET email = s.session_id, s.session_id = $1
C23_NameWitness ==
    /\ regs.q1 # Unset /\ regs.q1.UpdateTable = USERS
    /\ Elems(heap, regs.q1.Assignments) = <<AQ2, AQ3>>
    /\ Qualified(SetText(made.q1.query), "s") = 2
    /\ Qualified(SetText(made.q1.query), "users") = 0


-----------------------------------------------------------------------------
(* Sequences of joins *)

\* the joins of a statement, and one join, rendered alone
JoinsAlone(js, h) == JoinTablesAppendSQL(EmptySt, js, h)

JoinAlone(j, h) == JoinTableAppendSQL(EmptySt, j, h)

\* the texts, and the arguments, of the members of js from i on, the texts
\* separated by single spaces
RECURSIVE MembersText(_, _, _)
MembersText(js, i, h) ==
    IF i > Len(js) THEN <<>>
    ELSE (IF i > 1 THEN <<Tok(" ")>> ELSE <<>>) \o JoinAlone(js[i], h).buf
            \o MembersText(js, i + 1, h)

RECURSIVE MembersArgs(_, _, _)
MembersArgs(js, i, h) ==
    IF i > Len(js) THEN <<>> ELSE JoinAlone(js[i], h).args \o MembersArgs(js, i + 1, h)

\* a join without ON predicates is its keyword, a space and its table
C24_Bare(j, h) ==
    /\ JoinAlone(j, h).buf = <<Tok(j.JoinType), Tok(" ")>> \o TableAppendSQL(EmptySt, j.Table, h).buf
    /\ ~HasToken(JoinAlone(j, h).buf, " ON ")

C24_Sequence(js, h) ==
    /\ JoinsAlone(js, h).buf = MembersText(js, 1, h)
    /\ JoinsAlone(js, h).args = MembersArgs(js, 1, h)
    /\ js = <<>> => JoinsAlone(js, h).buf = <<>> /\ JoinsAlone(js, h).args = <<>>
    /\ \A i \in 1..Len(js) :
          IF js[i].OnPredicates = <<>>
          THEN C24_Bare(js[i], h)
          ELSE CountTop(JoinAlone(js[i], h).buf, {" ON "}) = 1

\* C24: a join with no ON predicates renders its keyword and its table and no
\* ON; a sequence of joins renders as its members in order separated by single
\* spaces, with their arguments concatenated in the same order; the empty
\* sequence renders as the empty text with no arguments.
C24_Joins ==
    \A x \in Dsts : regs[x] # Unset => C24_Sequence(Elems(heap, regs[x].JoinTables), heap)

\* LEFT JOIN ... ON ... = ?, then a derived table with arguments, then FULL
\* JOIN public.users AS u
C24_Witness ==
    /\ regs.q1 # Unset /\ regs.q1.JoinTables.len = 3
    /\ Elems(heap, regs.q1.JoinTables)[1].JoinType = JoinTypeLeft
    /\ Elems(heap, regs.q1.JoinTables)[2].Table = SUBQ
    /\ Elems(heap, regs.q1.JoinTables)[3] = JoinTable(JoinTypeFull, U, <<>>)
    /\ JoinsAlone(Elems(heap, regs.q1.JoinTables), heap).args = <<Lit(12), Lit(41), Lit(11)>>
    /\ SubSeq(JoinsAlone(Elems(heap, regs.q1.JoinTables), heap).buf,
              Len(JoinsAlone(Elems(heap, regs.q1.JoinTables), heap).buf) - 7,
              Len(JoinsAlone(Elems(heap, regs.q1.JoinTables), heap).buf))
          = <<Tok(" "), Tok("FULL JOIN"), Tok(" "), Tok("public"), Tok("."), Tok("users"),
              Tok(" AS "), Tok("u")>>


-----------------------------------------------------------------------------
(* Malformed statements *)

Commas(text) == {p \in 1..Len(text) : text[p].s = ", "}

\* the position of the n-th comma of a list, 0 before the first and the end
\* after the last
NthComma(text, n) ==
    IF n = 0 THEN 0
    ELSE IF n > Cardinality(Commas(text)) THEN Len(text) + 1
    ELSE CHOOSE p \in Commas(text) : Cardinality({o \in Commas(text) : o <= p}) = n

\* the i-th member of a list
Item(text, i) == SubSeq(text, NthComma(text, i - 1) + 1, NthComma(text, i) - 1)

ReturningText(buf) == SubSeq(buf, TopToken(buf, " RETURNING ") + 1, Len(buf))

\* nil tables and nil fields are written as NULL in their position
C25_Nulls(q, h, buf) ==
    /\ q.UpdateTable.k = "nil" =>
          buf[TopToken(buf, "UPDATE ") + 1].s = "NULL"
    /\ \A i \in 1..q.JoinTables.len :
          Elems(h, q.JoinTables)[i].Table.k = "nil" =>
              JoinAlone(Elems(h, q.JoinTables)[i], h).buf = <<Tok("JOIN"), Tok(" "), Tok("NULL")>>
    /\ CountTop(buf, {"NULL"}) >=
          Cardinality({i \in 1..q.JoinTables.len : Elems(h, q.JoinTables)[i].Table.k = "nil"})
    /\ q.ReturningFields.len > 0 =>
          /\ Cardinality(Commas(ReturningText(buf))) = q.ReturningFields.len - 1
          /\ \A i \in 1..q.ReturningFields.len :
                Elems(h, q.ReturningFields)[i].k = "nil" =>
                    Item(ReturningText(buf), i) = <<Tok("NULL")>>

\* the statements that have a nil table or a nil entry in a list
Malformed(q, h) ==
    \/ q.UpdateTable.k = "nil"
    \/ \E i \in 1..q.JoinTables.len : Elems(h, q.JoinTables)[i].Table.k = "nil"
    \/ \E i \in 1..q.ReturningFields.len : Elems(h, q.ReturningFields)[i].k = "nil"
    \/ \E i \in 1..q.Assignments.len : Elems(h, q.Assignments)[i].k = "nil"

\* rendering returns normally: no panic leaves AppendSQL
RendersNormally(q, h) == UpdateAppendSQL(q, EmptySt, h).panic = NilErr

\* C25 as stated: building and rendering never fail on a malformed tree; a nil
\* table is written as NULL (UPDATE NULL, JOIN NULL), a nil entry of a field
\* list as NULL in its position with the commas kept, and rendering returns
\* normally.
C25_Permissive ==
    \A x \in Dsts :
        (regs[x] # Unset /\ Malformed(regs[x], heap)) =>
            /\ RendersNormally(regs[x], heap)
            /\ C25_Nulls(regs[x], heap, ToSQL(regs[x], heap).query)

\* what holds of the code: the statements without a nil assignment render
\* normally, with NULL for nil tables and nil fields
C25_NilTablesAndFields ==
    \A x \in Dsts :
        (/\ regs[x] # Unset /\ Malformed(regs[x], heap)
         /\ \A i \in 1..regs[x].Assignments.len : Elems(heap, regs[x].Assignments)[i].k # "nil") =>
            /\ RendersNormally(regs[x], heap)
            /\ C25_Nulls(regs[x], heap, ToSQL(regs[x], heap).query)

\* UPDATE NULL JOIN NULL RETURNING u.user_id, NULL, s.session_id
C25_NullsReached ==
    /\ regs.q1 # Unset /\ regs.q1.UpdateTable = NilTable
    /\ regs.q1.JoinTables.len = 1
    /\ Elems(heap, regs.q1.ReturningFields) = <<FX, NilField, FY>>
    /\ CountToken(made.q1.query, "NULL") = 3

\* Set(u.EMAIL.Set(21), nil): ToSQL returns no text and the panic value
C25_NilAssignmentReached ==
    /\ regs.q1 # Unset
    /\ Elems(heap, regs.q1.Assignments) = <<AX, NilAssignment>>
    /\ made.q1 = [query |-> <<>>, args |-> <<NilDereference>>]


-----------------------------------------------------------------------------
(* The phases of FetchContext *)

\* the call passed the connection and mapper checks of lines 292-300
Passed == ~NoConnection /\ inp.hasMapper

\* the discovery invocation of the row mapper returned
Discovered == CountRow("mapper", 0) = 1 /\ ~(panic.seen /\ panic.by = "mapper" /\ panic.row = 0)

\* Bind 1, Render 2, Issue 3, Iterate 4, Finalize 5, the return 6
Phase(at) ==
    CASE at = "start" -> 0
      [] at = "bind" -> 1
      [] at = "render" -> 2
      [] at = "issue" -> 3
      [] at \in {"checkdest", "next", "scan", "map", "acc"} -> 4
      [] at = "finalize" -> 5
      [] OTHER -> 6

\* the discovery invocation, the rendering and the query happen at most once
\* and in this order, and every row event comes after the query
C26_Once ==
    /\ CountRow("mapper", 0) <= 1 /\ Count("render") <= 1 /\ Count("query") <= 1
    /\ Count("render") = 1 => (Discovered /\ Pos("mapper", 0) < Pos("render", 0))
    /\ Count("query") = 1 => (Count("render") = 1 /\ Pos("render", 0) < Pos("query", 0))
    /\ \A i \in 1..Len(events) :
          events[i].row > 0 => (Count("query") = 1 /\ Pos("query", 0) < i)

\* C26 as stated: every call that passes the checks renders the statement
\* exactly once and issues the query at most once.
C26_Original == (Returned /\ Passed) => (Count("render") = 1 /\ Count("query") <= 1)

\* C26: a call that passes the checks goes through Bind, Render, Issue,
\* Iterate, Finalize in this order and never back; the statement is rendered at
\* most once, and exactly once when the discovery invocation returned; the
\* query is issued at most once, after the discovery invocation returned, and
\* not again after an error.
C26_Phases ==
    /\ [](C26_Once /\ ((Returned /\ Passed /\ Discovered) => Count("render") = 1))
    /\ [][/\ Phase(pc') >= Phase(pc)
          /\ Phase(pc) \in 1..3 => Phase(pc') > Phase(pc)]_vars

\* a fetch of two rows that went through all the phases
C26_Witness ==
    /\ Returned /\ Passed /\ err = NilErr /\ inp.hasAcc
    /\ rowcount = 2 /\ inp.n = 2
    /\ events[1] = Ev("mapper", 0) /\ events[2] = Ev("render", 0) /\ events[3] = Ev("query", 0)
    /\ Count("acc") = 2


\* the row mapper signalled ExitPeacefully in its discovery invocation
PeacefulDiscovery ==
    panic.seen /\ panic.by = "mapper" /\ panic.row = 0 /\ panic.v = ExitPeacefully

\* C27: when the row mapper signals ExitPeacefully during its discovery
\* invocation, FetchContext returns nil and the connection is never called:
\* the statement was not rendered, no query was issued and there is no cursor.
C27_PeacefulDiscovery ==
    (Returned /\ PeacefulDiscovery)
        => /\ err = NilErr /\ ~panic.active
           /\ events = <<Ev("mapper", 0)>>
           /\ rows = NoRows /\ rowcount = 0 /\ collection = <<>>

\* nil is returned although the result set would have had rows
C27_Witness ==
    /\ Returned /\ PeacefulDiscovery /\ err = NilErr
    /\ inp.n >= 1 /\ inp.nDest >= 1 /\ ~inp.queryErr /\ Count("query") = 0


-----------------------------------------------------------------------------
(* The RETURNING list of a fetch *)

\* the text of a list of table fields
RECURSIVE FieldsText(_, _)
FieldsText(fs, i) ==
    IF i > Len(fs) THEN <<>>
    ELSE (IF i > 1 THEN <<Tok(", ")>> ELSE <<>>)
            \o <<Tok(fs[i].qual), Tok("."), Tok(fs[i].name)>> \o FieldsText(fs, i + 1)

\* C28: the RETURNING list of the statement FetchContext issues is the
\* sequence of fields the row mapper registered in its discovery invocation,
\* in registration order; the fields given to Returning(...) or ReturningOne()
\* before are not in it, and a mapper that registers nothing gives a statement
\* without RETURNING clause.
C28_ReturningDiscovered ==
    Len(shown) = 1 =>
        IF RowMapperFields(regs.B.RowMapper) = <<>>
        THEN CountTop(shown[1].query, {" RETURNING "}) = 0
        ELSE /\ CountTop(shown[1].query, {" RETURNING "}) = 1
             /\ ReturningText(shown[1].query) = FieldsText(RowMapperFields(regs.B.RowMapper), 1)

\* Returning(u.USER_ID), then a mapper that registers s.session_id, u.user_id
C28_Witness ==
    /\ Len(shown) = 1 /\ regs.B.RowMapper = "R2"
    /\ Elems(heap, regs.B.ReturningFields) = <<FX>>
    /\ ReturningText(shown[1].query) = FieldsText(<<FY, FX>>, 1)

\* ReturningOne(), then a mapper that registers nothing
C28_NothingWitness ==
    /\ Len(shown) = 1 /\ regs.B.RowMapper = "R0"
    /\ Elems(heap, regs.B.ReturningFields) = <<FieldLiteral("1")>>
    /\ ~HasToken(shown[1].query, " RETURNING ")


-----------------------------------------------------------------------------
(* The SET clause of a statement with a column mapper *)

\* the text of a list of assignments of literals to fields of u
RECURSIVE SetsText(_, _, _)
SetsText(sets, i, n) ==
    IF i > Len(sets) THEN <<>>
    ELSE (IF i > 1 THEN <<Tok(", ")>> ELSE <<>>)
            \o <<Tok(sets[i].Field.name), Tok(" = "), Dollar(sets[i].Value, n + i)>>
            \o SetsText(sets, i + 1, n)

\* the statement has a column mapper, and the mapper returns
C29_Case(q) == q.ColumnMapper # NilFunc /\ ~MapperPanics(q)

\* the SET clause and the arguments are those of the mapper's setter calls
C29_Set(q, sql) ==
    IF ColumnMapperSets(q.ColumnMapper) = <<>>
    THEN CountTop(sql.query, {" SET "}) = 0 /\ sql.args = <<>>
    ELSE /\ SetText(sql.query) = SetsText(ColumnMapperSets(q.ColumnMapper), 1, 0)
         /\ sql.args = [i \in 1..Len(ColumnMapperSets(q.ColumnMapper)) |->
                           ColumnMapperSets(q.ColumnMapper)[i].Value]

\* C29: when a column mapper is bound through Setx, every rendering invokes it
\* once on a fresh Column and the SET clause is exactly the assignments it
\* registered in that invocation; the assignments given to Set(...), before or
\* after Setx, are not in the rendered statement.
C29_SetFromMapper ==
    /\ \A i \in 1..Len(shown) : C29_Case(regs.B) => C29_Set(regs.B, shown[i])
    /\ \A y \in Derived :
          (regs[y] # Unset /\ C29_Case(regs[y])) => C29_Set(regs[y], made[y])

\* Set before Setx and after it, and two renderings
C29_Witness ==
    /\ Len(shown) = 2 /\ regs.B.ColumnMapper = "M2"
    /\ regs.B.Assignments.len = 1
    /\ shown[2].args = <<Lit(52), Lit(53)>>

C29_SetAfterWitness ==
    /\ regs.q1 # Unset /\ regs.q1.ColumnMapper = "M1"
    /\ regs.q1.Assignments.len = 2
    /\ made.q1.args = <<Lit(51)>>

-----------------------------------------------------------------------------
(* The peaceful-stop signal in ExecContext *)

\* the column mapper signalled an ExitCode while the statement was rendered
ColumnExit == panic.seen /\ panic.by = "column" /\ IsExitCode(panic.v)

\* C30: ExecContext does not treat the peaceful-stop signal specially: a column
\* mapper that signals ExitPeacefully, or any other ExitCode, makes the call
\* return that ExitCode as a non-nil error without calling the connection;
\* the same signal inside FetchContext yields a nil error.
C30_ExecNotPeaceful ==
    /\ (ExecReturned /\ ColumnExit)
          => /\ err = panic.v /\ err # NilErr /\ ~panic.active
             /\ Count("exec") = 0 /\ Count("affected") = 0 /\ rowsAffected = 0
    /\ (Returned /\ ColumnExit /\ panic.v = ExitPeacefully)
          => (err = NilErr /\ ~panic.active /\ Count("query") = 0)

C30_Witness ==
    /\ ExecReturned /\ ColumnExit /\ panic.v = ExitPeacefully
    /\ err = ExitPeacefully /\ ~inp.execErr /\ inp.n >= 1

C30_FetchWitness ==
    /\ Returned /\ ColumnExit /\ panic.v = ExitPeacefully
    /\ err = NilErr /\ ~inp.queryErr /\ inp.n >= 1


=============================================================================
